---- MODULE Spec2Model ----
(***************************************************************************)
(* Model of the precinct reconciliation tools:                             *)
(*   combine_vote_type_exports.py  (the Combiner, main())                  *)
(*   diff_precinct_files.py        (the command-line Differ, main())       *)
(*   streamlit_app.py              (the extended Differ, diff_dataframes)  *)
(*                                                                         *)
(* A string is a sequence of one-character strings, so that strip(),       *)
(* emptiness, lower(), float() and the ordering used by sort_values are    *)
(* computed and not assumed.  A table (DataFrame) is a record              *)
(*   [cols |-> set of column ids, rows |-> sequence of rows]               *)
(* where a row is a function from the column ids to cells and a cell is a  *)
(* string or NA (pandas' NaN, produced by an outer merge).                 *)
(* A column id is a pair <<name, tag>>: tag "" for a plain column and the  *)
(* vote type (or "f1"/"f2") for a column renamed "<name>__from_<type>"     *)
(* (or suffixed "__f1"/"__f2").                                            *)
(***************************************************************************)
EXTENDS Integers, Sequences, FiniteSets, TLC

VARIABLES
    pc,             \* position of the running program
    argv,           \* Combiner: supplied vote type -> input file (table)
    fail_on_errors, \* Combiner: --fail-on-errors
    per_type,       \* Combiner: the tagged frames, in input order
    merged,         \* Combiner: the merged frame
    conflict_rows,  \* Combiner: conflict records in emission order
    err_csv,        \* Combiner: rows of the written conflict report
    out_csv,        \* Combiner: rows of the written combined table
    printed,        \* Combiner: the counts of the status lines printed so far
    written,        \* which output files have been written
    exit_code,      \* process exit status
    dfile1,         \* Differ: --file1 table
    dfile2,         \* Differ: --file2 table
    dopts,          \* Differ: [float_tol, case_sensitive, only_cols or compare_cols]
    df1,            \* Differ: file1 as read_csv returns it
    df2,            \* Differ: file2 as read_csv returns it
    compare_cols,   \* Differ: the columns to compare, in the set's visiting order
    diffs,          \* Differ: diff records in emission order
    diff_csv,       \* Differ: rows of the written diff table
    eq_call,        \* equality relation: the arguments of a call
    eq_ret          \* equality relation: variant -> what the call returned

vars == <<pc, argv, fail_on_errors, per_type, merged, conflict_rows, err_csv,
          out_csv, written, exit_code, dfile1, dfile2, dopts, df1, df2,
          compare_cols, diffs, diff_csv, eq_call, eq_ret, printed>>

combineVars == <<argv, fail_on_errors, per_type, merged, conflict_rows,
                 err_csv, out_csv, printed>>

diffVars == <<dfile1, dfile2, dopts, df1, df2, compare_cols, diffs, diff_csv>>

eqVars == <<eq_call, eq_ret>>

-----------------------------------------------------------------------------
(* Strings                                                                 *)

\* pandas' missing value; no string, since every character is one letter long
NA == <<"NaN">>

Blank == <<>>

\* The whitespace characters that have no escape in a string, each written
\* as itself between the quotes.
VT == ""      \* U+000B, line tabulation
FS == ""      \* U+001C, file separator
GS == ""      \* U+001D, group separator
RS == ""      \* U+001E, record separator
US == ""      \* U+001F, unit separator
NEL == ""     \* U+0085, next line
NBSP == " "    \* U+00A0, no-break space
OGHAM == " "   \* U+1680, ogham space mark

\* Code point of each character the model's strings use (Python compares
\* strings by code point).
Code(c) ==
    CASE c = "\t" -> 9
      [] c = "\n" -> 10
      [] c = VT -> 11
      [] c = "\f" -> 12
      [] c = "\r" -> 13
      [] c = FS -> 28
      [] c = GS -> 29
      [] c = RS -> 30
      [] c = US -> 31
      [] c = NEL -> 133
      [] c = NBSP -> 160
      [] c = OGHAM -> 5760
      [] c = " " -> 32
      [] c = "-" -> 45
      [] c = "." -> 46
      [] c = "0" -> 48
      [] c = "1" -> 49
      [] c = "2" -> 50
      [] c = "3" -> 51
      [] c = "4" -> 52
      [] c = "5" -> 53
      [] c = "6" -> 54
      [] c = "7" -> 55
      [] c = "8" -> 56
      [] c = "9" -> 57
      [] c = "A" -> 65
      [] c = "B" -> 66
      [] c = "P" -> 80
      [] c = "a" -> 97
      [] c = "b" -> 98
      [] c = "p" -> 112
      [] c = "x" -> 120

\* The characters str.strip() and Series.str.strip() remove: those for which
\* str.isspace() holds. The sixteen of them from U+2000 on (U+2000..U+200A,
\* U+2028, U+2029, U+202F, U+205F, U+3000) cannot be written in a string of
\* a module and are left to the reading of the code.
Whitespace == {" ", "\t", "\n", "\r", "\f", VT, FS, GS, RS, US, NEL, NBSP, OGHAM}

IsSpace(c) == c \in Whitespace

RECURSIVE LStrip(_)
LStrip(s) ==
    IF s = <<>> THEN <<>>
    ELSE IF IsSpace(Head(s)) THEN LStrip(Tail(s)) ELSE s

RECURSIVE RStrip(_)
RStrip(s) ==
    IF s = <<>> THEN <<>>
    ELSE IF IsSpace(s[Len(s)]) THEN RStrip(SubSeq(s, 1, Len(s) - 1)) ELSE s

\* str.strip()
Strip(s) == RStrip(LStrip(s))

\* float() does not take U+001C..U+001F for whitespace: it turns the
\* whitespace from U+0080 on into blanks and then passes over the blanks and
\* U+0009..U+000D at both ends of the text
FloatSpace == Whitespace \ {FS, GS, RS, US}

RECURSIVE FloatLStrip(_)
FloatLStrip(s) ==
    IF s = <<>> THEN <<>>
    ELSE IF Head(s) \in FloatSpace THEN FloatLStrip(Tail(s)) ELSE s

RECURSIVE FloatRStrip(_)
FloatRStrip(s) ==
    IF s = <<>> THEN <<>>
    ELSE IF s[Len(s)] \in FloatSpace THEN FloatRStrip(SubSeq(s, 1, Len(s) - 1)) ELSE s

\* the text float() parses
FloatStrip(s) == FloatRStrip(FloatLStrip(s))

\* s < t for Python strings
RECURSIVE StrLess(_, _)
StrLess(s, t) ==
    IF t = <<>> THEN FALSE
    ELSE IF s = <<>> THEN TRUE
    ELSE IF Code(Head(s)) < Code(Head(t)) THEN TRUE
    ELSE IF Code(Head(s)) > Code(Head(t)) THEN FALSE
    ELSE StrLess(Tail(s), Tail(t))

\* lexicographic < on equally long tuples of strings
RECURSIVE TupLess(_, _)
TupLess(a, b) ==
    IF a = <<>> THEN FALSE
    ELSE IF StrLess(Head(a), Head(b)) THEN TRUE
    ELSE IF StrLess(Head(b), Head(a)) THEN FALSE
    ELSE TupLess(Tail(a), Tail(b))

Range(f) == {f[i] : i \in DOMAIN f}

\* Stable insertion of the pair x = <<key, item>> into the sorted sequence s
\* of such pairs: x goes after every pair whose key is not greater.
RECURSIVE InsertBy(_, _)
InsertBy(x, s) ==
    IF s = <<>> THEN <<x>>
    ELSE IF TupLess(x[1], Head(s)[1]) THEN <<x>> \o s
    ELSE <<Head(s)>> \o InsertBy(x, Tail(s))

RECURSIVE SortPairs(_)
SortPairs(s) ==
    IF s = <<>> THEN <<>>
    ELSE InsertBy(s[Len(s)], SortPairs(SubSeq(s, 1, Len(s) - 1)))

\* sort_values(by=..., kind="stable") of the sequence s, keys[i] being the
\* tuple of the "by" cells of s[i]
StableSort(s, keys) ==
    LET sorted == SortPairs([i \in DOMAIN s |-> <<keys[i], s[i]>>])
    IN [i \in DOMAIN s |-> sorted[i][2]]

RECURSIVE Flatten(_)
Flatten(ss) == IF ss = <<>> THEN <<>> ELSE Head(ss) \o Flatten(Tail(ss))

\* the elements of the set S of string tuples, in ascending order
RECURSIVE SortedSeqOf(_)
SortedSeqOf(S) ==
    IF S = {} THEN <<>>
    ELSE LET m == CHOOSE x \in S : \A y \in S : ~TupLess(y, x)
         IN <<m>> \o SortedSeqOf(S \ {m})

-----------------------------------------------------------------------------
(* Column vocabulary of combine_vote_type_exports.py                       *)

Col(name) == <<name, "">>
Tagged(name, tag) == <<name, tag>>

ID_COLS == <<"state", "county", "precinct">>

SHARED_REG_COLS ==
    <<"registered_voters", "republican_registrations",
      "democrat_registrations", "other_registrations">>

NONSHARED_BASE_COLS == <<"overall_turnout", "ballots_cast">>

\* keys of VTYPE_TO_COLS, in the dict's order
VTypes == <<"total", "eday", "early", "absentee", "mailin">>

VTYPE_TO_COLS(typ) ==
    CASE typ = "total" ->
           <<"candidate_a_votes_total", "candidate_b_votes_total", "total_votes">>
      [] typ = "eday" ->
           <<"candidate_a_votes_election_day", "candidate_b_votes_election_day",
             "total_votes_election_day">>
      [] typ = "early" ->
           <<"candidate_a_votes_early", "candidate_b_votes_early", "total_votes_early">>
      [] typ = "absentee" ->
           <<"candidate_a_votes_absentee", "candidate_b_votes_absentee",
             "total_votes_absentee">>
      [] typ = "mailin" ->
           <<"candidate_a_votes_mailin", "candidate_b_votes_mailin", "total_votes_mailin">>

TYPE_PRIORITY == <<"total", "eday", "early", "absentee", "mailin">>

CSV_COLUMNS ==
    ID_COLS \o NONSHARED_BASE_COLS \o SHARED_REG_COLS
    \o VTYPE_TO_COLS("total") \o VTYPE_TO_COLS("eday") \o VTYPE_TO_COLS("early")
    \o VTYPE_TO_COLS("absentee") \o VTYPE_TO_COLS("mailin")

IdCols == {Col(c) : c \in Range(ID_COLS)}

\* a key that takes "P" for "p"
KeyOfFolded(row) ==
    LET Fold(s) == [i \in DOMAIN s |-> IF s[i] = "P" THEN "p" ELSE s[i]]
    IN <<Fold(row[Col("state")]), Fold(row[Col("county")]), Fold(row[Col("precinct")])>>

\* the (state, county, precinct) key of a row
KeyOf(row) == <<row[Col("state")], row[Col("county")], row[Col("precinct")]>>

\* Position of a column name among the column names sort_values compares,
\* in ascending string order ("" is the smallest string).
ColumnRank(n) ==
    CASE n = "" -> 0
      [] n = "ballots_cast" -> 1
      [] n = "democrat_registrations" -> 2
      [] n = "other_registrations" -> 3
      [] n = "overall_turnout" -> 4
      [] n = "precinct" -> 5
      [] n = "registered_voters" -> 6
      [] n = "republican_registrations" -> 7
      [] n = "state" -> 8
      [] n = "total_votes" -> 9

\* Position of a source_type in ascending string order.
TypeRank(n) ==
    CASE n = "absentee" -> 1
      [] n = "early" -> 2
      [] n = "eday" -> 3
      [] n = "mailin" -> 4
      [] n = "total" -> 5
      [] n = "unknown" -> 6

\* a one-character string that sorts as the rank does
RankKey(r) == <<<<"0", "1", "2", "3", "4", "5", "6", "7", "8", "9">>[r + 1]>>

-----------------------------------------------------------------------------
(* Combiner: reading and tagging                                           *)

\* read_one exits when an identity column is missing
ReadOneFails(file) == ~(IdCols \subseteq file.cols)

\* read_one: the table with its identity cells stripped
read_one(file) ==
    [cols |-> file.cols,
     rows |-> [i \in DOMAIN file.rows |->
                 [c \in file.cols |->
                    IF c \in IdCols THEN Strip(file.rows[i][c])
                    ELSE file.rows[i][c]]]]

\* needed = ID_COLS + SHARED_REG_COLS + NONSHARED_BASE_COLS + VTYPE_TO_COLS[typ]
Needed(typ) ==
    Range(ID_COLS) \cup Range(SHARED_REG_COLS) \cup Range(NONSHARED_BASE_COLS)
    \cup Range(VTYPE_TO_COLS(typ))

\* the check of the triplet columns left out
MissingColsNone(typ, df) == {}

\* missing = [c for c in VTYPE_TO_COLS[typ] if c not in df.columns]
MissingCols(typ, df) == {c \in Range(VTYPE_TO_COLS(typ)) : Col(c) \notin df.cols}

\* the name a kept column has after the two rename loops
RenameCol(typ, c) ==
    IF c[1] \in Range(SHARED_REG_COLS) \cup Range(NONSHARED_BASE_COLS)
    THEN Tagged(c[1], typ)
    ELSE c

\* the renames without the selection of the needed columns
TagFrameKeepAll(typ, df) ==
    [cols |-> {RenameCol(typ, c) : c \in df.cols},
     rows |-> [i \in DOMAIN df.rows |->
                 [d \in {RenameCol(typ, c) : c \in df.cols} |->
                    LET c == CHOOSE c \in df.cols : RenameCol(typ, c) = d
                    IN df.rows[i][c]]]]

\* df[[c for c in df.columns if c in needed]] followed by the renames
TagFrame(typ, df) ==
    LET kept == {c \in df.cols : c[2] = "" /\ c[1] \in Needed(typ)}
    IN [cols |-> {RenameCol(typ, c) : c \in kept},
        rows |-> [i \in DOMAIN df.rows |->
                    [d \in {RenameCol(typ, c) : c \in kept} |->
                       LET c == CHOOSE c \in kept : RenameCol(typ, c) = d
                       IN df.rows[i][c]]]]

\* type_to_path keeps the order of VTYPE_TO_COLS
SuppliedSeq(a) == SelectSeq(VTypes, LAMBDA t : t \in DOMAIN a)

\* the path given for a vote type
PathOf(typ) == <<typ, ".csv">>

-----------------------------------------------------------------------------
(* Combiner: merge                                                         *)

KeysOf(F) == {KeyOf(F.rows[i]) : i \in DOMAIN F.rows}

RowsWithKey(F, k) == SelectSeq(F.rows, LAMBDA r : KeyOf(r) = k)

\* how="inner" in place of how="outer"
InnerMerge(L, R) ==
    LET cols == L.cols \cup R.cols
        keys == SortedSeqOf(KeysOf(L) \cap KeysOf(R))
        Join(l, r) == [c \in cols |-> IF c \in DOMAIN l THEN l[c] ELSE r[c]]
        Group(k) ==
            LET lk == RowsWithKey(L, k)
                rk == RowsWithKey(R, k)
            IN Flatten([i \in DOMAIN lk |-> [j \in DOMAIN rk |-> Join(lk[i], rk[j])]])
    IN [cols |-> cols, rows |-> Flatten([n \in DOMAIN keys |-> Group(keys[n])])]

\* left.merge(right, on=ID_COLS, how="outer"): keys in ascending order; a key
\* in both sides gives every pair of its rows, left-major; a key in one side
\* gives that side's rows with NaN in the other side's columns.
OuterMerge(L, R) ==
    LET cols == L.cols \cup R.cols
        keys == SortedSeqOf(KeysOf(L) \cup KeysOf(R))
        Join(l, r) == [c \in cols |-> IF c \in DOMAIN l THEN l[c] ELSE r[c]]
        Widen(x) == [c \in cols |-> IF c \in DOMAIN x THEN x[c] ELSE NA]
        Group(k) ==
            LET lk == RowsWithKey(L, k)
                rk == RowsWithKey(R, k)
            IN IF lk # <<>> /\ rk # <<>>
               THEN Flatten([i \in DOMAIN lk |-> [j \in DOMAIN rk |-> Join(lk[i], rk[j])]])
               ELSE IF lk # <<>> THEN [i \in DOMAIN lk |-> Widen(lk[i])]
               ELSE [j \in DOMAIN rk |-> Widen(rk[j])]
    IN [cols |-> cols, rows |-> Flatten([n \in DOMAIN keys |-> Group(keys[n])])]

RECURSIVE MergeInto(_, _)
MergeInto(out, frames) ==
    IF frames = <<>> THEN out
    ELSE MergeInto(OuterMerge(out, Head(frames)), Tail(frames))

\* merge_frames
merge_frames(frames) ==
    IF frames = <<>> THEN [cols |-> IdCols, rows |-> <<>>]
    ELSE MergeInto(Head(frames), Tail(frames))

-----------------------------------------------------------------------------
(* Combiner: conflict detection                                            *)

\* variants of a shared column among merged.columns, in column order (one
\* tagged column per supplied vote type, in the order of the inputs)
SharedVariants(col, M) ==
    SelectSeq([i \in DOMAIN VTypes |-> Tagged(col, VTypes[i])],
              LAMBDA c : c \in M.cols)

\* vals.replace("", NA) ... r.dropna().astype(str).nunique()
NUnique(row, variants) ==
    Cardinality({row[variants[i]] : i \in DOMAIN variants} \ {Blank, NA})

\* pd.isna(v) or (isinstance(v, str) and not v.strip())
SkippedValue(v) == v = NA \/ Strip(v) = Blank

\* the source type when the search of lines 152-153 finds nothing
SrcTypeUnknown(vcol) == "unknown"

\* the first vote type whose "__from_<type>" occurs in the column name
SrcType(vcol) ==
    IF \E i \in DOMAIN VTypes : VTypes[i] = vcol[2] THEN vcol[2] ELSE "unknown"

ConflictRecord(row, col, vcol, supplied) ==
    [state |-> row[Col("state")],
     county |-> row[Col("county")],
     precinct |-> row[Col("precinct")],
     column |-> col,
     source_type |-> SrcType(vcol),
     source_column |-> vcol,
     source_file |-> IF SrcType(vcol) \in supplied THEN PathOf(SrcType(vcol))
                     ELSE Blank,
     value |-> row[vcol]]

\* the records one merged row gives for one shared column
RowConflicts(row, col, variants, supplied) ==
    IF NUnique(row, variants) > 1
    THEN LET emitted == SelectSeq(variants, LAMBDA v : ~SkippedValue(row[v]))
         IN [i \in DOMAIN emitted |-> ConflictRecord(row, col, emitted[i], supplied)]
    ELSE <<>>

\* the base columns checked as well
ConflictColsWithBase == SHARED_REG_COLS \o NONSHARED_BASE_COLS

\* the columns whose variants are checked for conflicts
ConflictCols == SHARED_REG_COLS

\* conflict_rows after the loop over the shared columns
DetectConflicts(M, supplied) ==
    Flatten([n \in DOMAIN ConflictCols |->
               LET col == ConflictCols[n]
                   variants == SharedVariants(col, M)
               IN Flatten([i \in DOMAIN M.rows |->
                             RowConflicts(M.rows[i], col, variants, supplied)])])

ConflictSortKey(rec) ==
    <<rec.state, rec.county, rec.precinct,
      RankKey(ColumnRank(rec.column)), RankKey(TypeRank(rec.source_type))>>

\* the report left in emission order
SortConflictsNot(recs) == recs

\* err_df.sort_values(by=ID_COLS+["column","source_type"], kind="stable")
SortConflicts(recs) ==
    StableSort(recs, [i \in DOMAIN recs |-> ConflictSortKey(recs[i])])

RecKey(rec) == <<rec.state, rec.county, rec.precinct>>

\* conflicted = err_df[ID_COLS].drop_duplicates()
ConflictedKeys(recs) == {RecKey(recs[i]) : i \in DOMAIN recs}

\* the conflicted keys left in the frame
DropNothing(M, recs) == M

\* merged[merged["__drop"].isna()]
DropConflicted(M, recs) ==
    [cols |-> M.cols,
     rows |-> SelectSeq(M.rows, LAMBDA r : KeyOf(r) \notin ConflictedKeys(recs))]

\* lines 173-175: dropped, the sum of the __drop marks over the merged rows
Dropped(M, recs) ==
    Len(SelectSeq(M.rows, LAMBDA r : KeyOf(r) \in ConflictedKeys(recs)))

-----------------------------------------------------------------------------
(* Combiner: coalescing and the combined table                             *)

\* len(str(v)): str(NaN) is "nan"
PyStrLen(v) == IF v = NA THEN 3 ELSE Len(v)

RECURSIVE CoalesceFrom(_, _, _)
CoalesceFrom(s, row, cols) ==
    IF cols = <<>> THEN s
    ELSE CoalesceFrom(IF PyStrLen(s) > 0 THEN s ELSE row[Head(cols)],
                      row, Tail(cols))

\* coalesce_first_nonempty, for one row
coalesce_first_nonempty(row, cols) == CoalesceFrom(row[Head(cols)], row, Tail(cols))

\* .fillna("") and to_csv's empty field for NaN
FillNa(v) == IF v = NA THEN Blank ELSE v

\* [f"{base}__from_{t}" for t in TYPE_PRIORITY if ... in merged.columns]
PriorityVariants(base, M) ==
    SelectSeq([i \in DOMAIN TYPE_PRIORITY |-> Tagged(base, TYPE_PRIORITY[i])],
              LAMBDA c : c \in M.cols)

\* the coalesced value of a base or registration column for one row
CoalescedCell(row, base, M) ==
    IF PriorityVariants(base, M) = <<>> THEN Blank
    ELSE FillNa(coalesce_first_nonempty(row, PriorityVariants(base, M)))

\* one row of merged[CSV_COLUMNS] as to_csv writes it
CombinedRow(row, M) ==
    [c \in {Col(n) : n \in Range(CSV_COLUMNS)} |->
       IF c[1] \in Range(NONSHARED_BASE_COLS) \cup Range(SHARED_REG_COLS)
       THEN CoalescedCell(row, c[1], M)
       ELSE IF c \in M.cols THEN FillNa(row[c])
       ELSE Blank]

\* merged[CSV_COLUMNS].sort_values(by=ID_COLS, kind="stable")
SortCombined(rows) == StableSort(rows, [i \in DOMAIN rows |-> KeyOf(rows[i])])

CombinedTable(M) == SortCombined([i \in DOMAIN M.rows |-> CombinedRow(M.rows[i], M)])

-----------------------------------------------------------------------------
(* Bounded inputs of the Combiner                                          *)

MaxRows == 2        \* rows over all the files of one run

\* the vote types of the usage examples; any subset of them may be supplied
ArgTypes == {"total", "early", "mailin"}

\* identity cells before padding; the last precinct has a blank before it
\* and a no-break space after it
KeyPool ==
    { <<<<"b">>, <<"a">>, <<"a">>>>,
      <<<<"a">>, <<"b">>, <<"p">>>>,
      <<<<"a">>, <<"b">>, <<"P">>>>,
      <<<<"a">>, <<"b">>, <<" ", "p", NBSP>>>> }

\* the early file puts a tab before its precinct cells
PadOf(typ) == IF typ = "early" THEN <<"\t">> ELSE <<>>

RefReg == <<"1", "0", "0">>
RefTurnout == <<"5", "0">>

\* blank, a blank, a blank and a no-break space, and two numbers
RegVals == {Blank, <<" ">>, <<" ", NBSP>>, RefReg, <<"1", "0", "5">>}

TurnoutVals == {Blank, RefTurnout, <<"6", "0">>}

\* <<registered_voters, overall_turnout>> of a row: the reference row with
\* at most one of the two cells changed
CellPool ==
    {<<r, RefTurnout>> : r \in RegVals} \cup {<<RefReg, o>> : o \in TurnoutVals}

\* a column of another vote type's triplet that the file of typ also holds
ForeignCol(typ) ==
    IF typ = "total" THEN "total_votes_early" ELSE "total_votes"

\* the columns of the file supplied for typ
FileCols(typ) ==
    IdCols \cup {Col(c) : c \in Range(VTYPE_TO_COLS(typ))}
    \cup {Col(c) : c \in Range(SHARED_REG_COLS) \ {"other_registrations"}}
    \cup {Col(c) : c \in Range(NONSHARED_BASE_COLS)}
    \cup {Col(ForeignCol(typ))}

\* ballots_cast and the vote counts written by the export of each vote type
TypeDigit(typ) ==
    CASE typ = "total" -> "9"
      [] typ = "eday" -> "4"
      [] typ = "early" -> "3"
      [] typ = "absentee" -> "1"
      [] typ = "mailin" -> "2"

\* an input row of the file of typ
InputRow(typ, key, reg, turnout) ==
    [c \in FileCols(typ) |->
       CASE c = Col("state") -> key[1]
         [] c = Col("county") -> key[2]
         [] c = Col("precinct") -> PadOf(typ) \o key[3]
         [] c = Col("registered_voters") -> reg
         [] c = Col("republican_registrations") -> <<"4", "0">>
         [] c = Col("democrat_registrations") -> Blank
         [] c = Col("overall_turnout") -> turnout
         [] c = Col("ballots_cast") -> <<TypeDigit(typ), "0">>
         [] c = Col(VTYPE_TO_COLS(typ)[1]) -> <<TypeDigit(typ)>>
         [] c = Col(VTYPE_TO_COLS(typ)[2]) -> reg
         [] c = Col(VTYPE_TO_COLS(typ)[3]) -> <<TypeDigit(typ), "7">>
         [] OTHER -> <<"8", "8">>]

\* rows tagged with the vote type whose file holds them
RowPool(S) ==
    {<<t, InputRow(t, k, v[1], v[2])>> : t \in S, k \in KeyPool, v \in CellPool}

TypeIndex(t) == CHOOSE i \in DOMAIN VTypes : VTypes[i] = t

\* the files of a run: the rows of g, file by file
FilesOf(S, g) ==
    [t \in S |->
       LET mine == SelectSeq(g, LAMBDA x : x[1] = t)
       IN [cols |-> FileCols(t), rows |-> [i \in DOMAIN mine |-> mine[i][2]]]]

\* the table without the column c
DropCol(file, c) ==
    [cols |-> file.cols \ {c},
     rows |-> [i \in DOMAIN file.rows |-> [d \in file.cols \ {c} |-> file.rows[i][d]]]]

\* what a run's files may lack: nothing, or in the file of one vote type an
\* identity column or a column of its own triplet
Defects(S) ==
    {<<>>} \cup {<<t, c>> : t \in S, c \in {"precinct"}}
           \cup UNION {{<<t, VTYPE_TO_COLS(t)[3]>>} : t \in S}

WithDefect(files, d) ==
    IF d = <<>> THEN files
    ELSE [t \in DOMAIN files |-> IF t = d[1] THEN DropCol(files[t], Col(d[2])) ELSE files[t]]

CombineInit ==
    /\ pc = "start"
    /\ \E S \in SUBSET ArgTypes :
         /\ \E n \in 0..MaxRows :
              \E g \in [1..n -> RowPool(S)] :
                 /\ \A i \in 1..(n - 1) : TypeIndex(g[i][1]) <= TypeIndex(g[i + 1][1])
                 /\ \E d \in Defects(S) : argv = WithDefect(FilesOf(S, g), d)
    /\ fail_on_errors \in BOOLEAN
    /\ per_type = <<>>
    /\ merged = [cols |-> IdCols, rows |-> <<>>]
    /\ conflict_rows = <<>>
    /\ printed = <<>>
    /\ err_csv = <<>>
    /\ out_csv = <<>>
    /\ written = {}
    /\ exit_code = 0
    /\ dfile1 = <<>>
    /\ dfile2 = <<>>
    /\ dopts = <<>>
    /\ df1 = <<>>
    /\ df2 = <<>>
    /\ compare_cols = <<>>
    /\ diffs = <<>>
    /\ diff_csv = <<>>
    /\ eq_call = <<>>
    /\ eq_ret = <<>>

-----------------------------------------------------------------------------
(* Combiner: the steps of main()                                           *)

\* lines 110-135: collect the inputs, read them, check and tag the columns
ReadInputs ==
    /\ pc = "start"
    /\ IF \/ DOMAIN argv = {}
          \/ \E t \in DOMAIN argv : ReadOneFails(argv[t])
          \/ \E t \in DOMAIN argv : MissingCols(t, argv[t]) # {}
       THEN /\ pc' = "exit"
            /\ exit_code' = 1
            /\ per_type' = per_type
       ELSE /\ pc' = "read"
            /\ exit_code' = exit_code
            /\ per_type' = [i \in DOMAIN SuppliedSeq(argv) |->
                              TagFrame(SuppliedSeq(argv)[i],
                                       read_one(argv[SuppliedSeq(argv)[i]]))]
    /\ UNCHANGED <<argv, fail_on_errors, merged, conflict_rows, err_csv, out_csv, written, printed>>
    /\ UNCHANGED diffVars
    /\ UNCHANGED eqVars

\* lines 137-161: merge the frames and build the conflict rows
MergeAndDetect ==
    /\ pc = "read"
    /\ pc' = "merged"
    /\ merged' = merge_frames(per_type)
    /\ conflict_rows' = DetectConflicts(merge_frames(per_type), DOMAIN argv)
    /\ UNCHANGED <<argv, fail_on_errors, per_type, err_csv, out_csv, written, exit_code, printed>>
    /\ UNCHANGED diffVars
    /\ UNCHANGED eqVars

\* lines 163-179: write the conflict report and drop the conflicted keys
ReportConflicts ==
    /\ pc = "merged"
    /\ conflict_rows # <<>>
    /\ pc' = "reported"
    /\ err_csv' = SortConflicts(conflict_rows)
    /\ written' = written \cup {"err"}
    /\ merged' = DropConflicted(merged, conflict_rows)
    /\ exit_code' = IF fail_on_errors THEN 2 ELSE 0
    /\ printed' = [n \in {"records", "omitted"} |->
                     IF n = "records" THEN Len(conflict_rows)
                     ELSE Dropped(merged, conflict_rows)]
    /\ UNCHANGED <<argv, fail_on_errors, per_type, conflict_rows, out_csv>>
    /\ UNCHANGED diffVars
    /\ UNCHANGED eqVars

\* lines 181-222: coalesce, order, sort and write the combined table
WriteCombined ==
    /\ \/ pc = "reported"
       \/ pc = "merged" /\ conflict_rows = <<>>
    /\ pc' = "exit"
    /\ out_csv' = CombinedTable(merged)
    /\ printed' = [n \in DOMAIN printed \cup {"rows"} |->
                     IF n = "rows" THEN Len(merged.rows) ELSE printed[n]]
    /\ written' = written \cup {"out"}
    /\ UNCHANGED <<argv, fail_on_errors, per_type, merged, conflict_rows, err_csv, exit_code>>
    /\ UNCHANGED diffVars
    /\ UNCHANGED eqVars

CombineNext == ReadInputs \/ MergeAndDetect \/ ReportConflicts \/ WriteCombined

Spec == CombineInit /\ [][CombineNext]_vars

-----------------------------------------------------------------------------
(* diff_precinct_files.py: the equality relation                           *)

KEYS == <<"state", "county", "precinct">>

\* str.lower() on one character
LowerChar(c) ==
    CASE c = "A" -> "a"
      [] c = "B" -> "b"
      [] c = "P" -> "p"
      [] OTHER -> c

Lower(s) == [i \in DOMAIN s |-> LowerChar(s[i])]

\* normalize_value that strips in case-sensitive mode only
normalize_valueLowerOnly(s, case_sensitive) ==
    IF case_sensitive THEN Strip(s) ELSE Lower(s)

\* normalize_value without the lowercasing of line 47
normalize_valueCased(s, case_sensitive) == Strip(s)

\* normalize_value (a cell is never None here)
normalize_value(s, case_sensitive) ==
    IF case_sensitive THEN Strip(s) ELSE Lower(Strip(s))

Digits == {"0", "1", "2", "3", "4", "5", "6", "7", "8", "9"}

DigitVal(c) == Code(c) - 48

\* float() accepts, over the model's characters, text that after the removal
\* of surrounding whitespace is an optional sign followed by digits with at
\* most one point and at least one digit
Numeral(s) ==
    LET dots == {i \in DOMAIN s : s[i] = "."}
    IN /\ \A i \in DOMAIN s : s[i] \in Digits \cup {"."}
       /\ Cardinality(dots) <= 1
       /\ \E i \in DOMAIN s : s[i] \in Digits

\* float() accepts the text s, which carries no sign
UnsignedFloat(s) == Numeral(FloatStrip(s))

Unsigned(s) == IF s # <<>> /\ Head(s) = "-" THEN Tail(s) ELSE s

IsFloat(s) == Numeral(Unsigned(FloatStrip(s)))

RECURSIVE IntOf(_)
IntOf(ds) == IF ds = <<>> THEN 0 ELSE 10 * IntOf(SubSeq(ds, 1, Len(ds) - 1)) + DigitVal(ds[Len(ds)])

\* A float is an IEEE binary64 value, held exactly as
\*   [neg |-> sign, bits |-> significand, exp |-> exponent]
\* for (bits read as a binary number, most significant bit first) * 2^exp,
\* with at most Mantissa bits and no leading zero; zero has no bits.
Mantissa == 53

\* the carries of an addition are passed between pieces of Limb bits
Limb == 15

\* the number of binary digits of n
BitLen(n) == CHOOSE k \in 0..30 : n < 2 ^ k /\ (k = 0 \/ 2 ^ (k - 1) <= n)

\* n as a binary number
BitsOf(n) == [i \in 1..BitLen(n) |-> (n \div 2 ^ (BitLen(n) - i)) % 2]

\* b without its leading zeros
Trim(b) ==
    IF \A i \in DOMAIN b : b[i] = 0 THEN <<>>
    ELSE SubSeq(b, CHOOSE i \in DOMAIN b : b[i] = 1 /\ \A j \in 1..(i - 1) : b[j] = 0, Len(b))

Zeros(n) == [i \in 1..n |-> 0]

Front(b) == SubSeq(b, 1, Len(b) - 1)

PadTo(b, n) == Zeros(n - Len(b)) \o b

MaxOf(x, y) == IF x < y THEN y ELSE x

MinOf(x, y) == IF x < y THEN x ELSE y

\* a < b for two binary numbers without leading zeros
BitsLess(a, b) ==
    \/ Len(a) < Len(b)
    \/ /\ Len(a) = Len(b)
       /\ \E i \in DOMAIN a : a[i] < b[i] /\ \A j \in 1..(i - 1) : a[j] = b[j]

\* the number a piece of at most Limb bits stands for
RECURSIVE BitsVal(_)
BitsVal(b) == IF b = <<>> THEN 0 ELSE 2 * BitsVal(Front(b)) + b[Len(b)]

\* b cut into n pieces of Limb bits, most significant first
Limbs(b, n) ==
    [j \in 1..n |-> BitsVal(SubSeq(PadTo(b, Limb * n), Limb * (j - 1) + 1, Limb * j))]

\* the binary number that the pieces stand for
Unlimbs(L) ==
    Trim([i \in 1..(Limb * Len(L)) |->
            (L[(i - 1) \div Limb + 1] \div 2 ^ (Limb - 1 - ((i - 1) % Limb))) % 2])

\* the carry into piece j of A + B
RECURSIVE CarryInto(_, _, _)
CarryInto(A, B, j) ==
    IF j = Len(A) THEN 0 ELSE (A[j + 1] + B[j + 1] + CarryInto(A, B, j + 1)) \div 2 ^ Limb

\* a + b
BitsPlus(a, b) ==
    LET n == MaxOf(Len(a), Len(b)) \div Limb + 1
        A == Limbs(a, n)
        B == Limbs(b, n)
    IN Unlimbs([j \in 1..n |-> (A[j] + B[j] + CarryInto(A, B, j)) % 2 ^ Limb])

\* the borrow from piece j of A - B
RECURSIVE BorrowFrom(_, _, _)
BorrowFrom(A, B, j) ==
    IF j = Len(A) THEN 0
    ELSE IF A[j + 1] - B[j + 1] - BorrowFrom(A, B, j + 1) < 0 THEN 1 ELSE 0

\* a - b for b <= a
BitsMinus(a, b) ==
    LET n == MaxOf(Len(a), Len(b)) \div Limb + 1
        A == Limbs(a, n)
        B == Limbs(b, n)
    IN Unlimbs([j \in 1..n |->
                  (A[j] - B[j] - BorrowFrom(A, B, j) + 2 ^ Limb) % 2 ^ Limb])

\* round to nearest, ties to even: bits * 2^exp, plus (when sticky) a
\* remainder below one unit of the last bit, as <<significand, exponent>>
RoundTrimmed(b, exp, sticky) ==
    IF Len(b) <= Mantissa THEN <<b, exp>>
    ELSE LET keep == SubSeq(b, 1, Mantissa)
             guard == b[Mantissa + 1]
             rest == sticky \/ \E i \in (Mantissa + 2)..Len(b) : b[i] = 1
             up == guard = 1 /\ (rest \/ keep[Mantissa] = 1)
             m == IF up THEN BitsPlus(keep, <<1>>) ELSE keep
             e == exp + Len(b) - Mantissa
         IN IF Len(m) > Mantissa THEN <<Front(m), e + 1>> ELSE <<m, e>>

RoundBits(bits, exp, sticky) ==
    CHOOSE x \in {RoundTrimmed(b, exp, sticky) : b \in {Trim(bits)}} : TRUE

\* 2^k modulo d
RECURSIVE PowMod(_, _)
PowMod(k, d) ==
    IF k < Limb THEN 2 ^ k % d ELSE (PowMod(k - Limb, d) * (2 ^ Limb % d)) % d

\* what is left of r / d below its first k binary places, times 2^k * d
FracRem(r, d, k) == (r * PowMod(k, d)) % d

\* the k-th binary place of r / d, for r < d
FracBit(r, d, k) == (2 * FracRem(r, d, k - 1)) \div d

\* the binary places of r / d that a significand after the integer digits
\* ints takes, and one more
Places(ints, r, d) ==
    IF r = 0 THEN 0
    ELSE IF ints # <<>> THEN Mantissa + 1 - Len(ints)
    ELSE (CHOOSE k \in 1..30 : FracBit(r, d, k) = 1 /\ \A j \in 1..(k - 1) : FracBit(r, d, j) = 0)
         + Mantissa

\* the float nearest to n / d (the correctly rounded conversion of float())
DecToFloat(n, d) ==
    LET ints == BitsOf(n \div d)
        r == n % d
        k == Places(ints, r, d)
    IN CHOOSE f \in
         {[neg |-> FALSE, bits |-> x[1], exp |-> x[2]] :
            x \in {RoundBits(ints \o [j \in 1..k |-> FracBit(r, d, j)], 0 - k,
                             FracRem(r, d, k) # 0)}} : TRUE

\* float(s), for s with IsFloat(s)
FloatOf(s) ==
    LET t == FloatStrip(s)
        u == Unsigned(t)
        digits == SelectSeq(u, LAMBDA c : c # ".")
        dot == IF \E i \in DOMAIN u : u[i] = "." THEN CHOOSE i \in DOMAIN u : u[i] = "."
               ELSE Len(u)
    IN [DecToFloat(IntOf(digits), 10 ^ (Len(u) - dot)) EXCEPT !.neg = (u # t)]

\* the significand of x at exponent e <= x.exp
Aligned(x, e) == Trim(x.bits \o Zeros(x.exp - e))

\* x - y, rounded
FloatSub(x, y) ==
    LET e == MinOf(x.exp, y.exp)
        a == Aligned(x, e)
        b == Aligned(y, e)
        mag == IF x.neg # y.neg THEN BitsPlus(a, b)
               ELSE IF BitsLess(a, b) THEN BitsMinus(b, a) ELSE BitsMinus(a, b)
        neg == IF x.neg # y.neg THEN x.neg
               ELSE IF BitsLess(a, b) THEN ~x.neg ELSE x.neg
    IN CHOOSE f \in
         {[neg |-> neg, bits |-> r[1], exp |-> r[2]] : r \in {RoundBits(mag, e, FALSE)}} : TRUE

\* abs(x)
Abs(x) == [x EXCEPT !.neg = FALSE]

\* x <= y
FloatLeq(x, y) ==
    LET e == MinOf(x.exp, y.exp)
        a == Aligned(x, e)
        b == Aligned(y, e)
    IN IF a = <<>> /\ b = <<>> THEN TRUE
       ELSE IF x.neg # y.neg THEN x.neg
       ELSE IF x.neg THEN ~BitsLess(a, b)
       ELSE ~BitsLess(b, a)

\* try_float that reads a value which fails to parse as 0.0
try_floatZero(v) == <<TRUE, IF IsFloat(v) THEN FloatOf(v) ELSE DecToFloat(0, 1)>>

\* try_float: <<TRUE, value>> or <<FALSE, 0.0>> for None
try_float(v) == IF IsFloat(v) THEN <<TRUE, FloatOf(v)>> ELSE <<FALSE, DecToFloat(0, 1)>>

\* a tolerance option is held as the number of thousandths its text denotes
Scale == 10 ^ 3

\* float() of the text of the tolerance option
TolOf(float_tol) == DecToFloat(float_tol, Scale)

\* f1 - f2 <= float_tol, the difference taken without abs
WithinOneSided(f1, f2, tol) == \E d \in {FloatSub(f1, f2)} : d.neg \/ FloatLeq(d, tol)

\* abs(f1 - f2) <= float_tol
Within(f1, f2, tol) == \E d \in {FloatSub(f1, f2)} : FloatLeq(Abs(d), tol)

\* abs(f) <= float_tol
SmallFloat(f, tol) == FloatLeq(Abs(f), tol)

\* compare_values without the numeric comparison of lines 66-71
compare_valuesExact(v1, v2, float_tol, case_sensitive) ==
    normalize_value(v1, case_sensitive) = normalize_value(v2, case_sensitive)

\* compare_values
compare_values(v1, v2, float_tol, case_sensitive) ==
    \E n1 \in {normalize_value(v1, case_sensitive)}, n2 \in {normalize_value(v2, case_sensitive)} :
      \E f1 \in {try_float(n1)}, f2 \in {try_float(n2)}, tol \in {TolOf(float_tol)} :
        IF n1 = n2 THEN TRUE
        ELSE IF f1[1] /\ f2[1] THEN Within(f1[2], f2[2], tol)
        ELSE FALSE

\* values_equal without the blank-versus-zero rule of lines 404-406
values_equalStrict(v1, v2, float_tol, case_sensitive) ==
    compare_values(v1, v2, float_tol, case_sensitive)

\* streamlit_app.py values_equal (its normalize_value and try_float are
\* those of diff_precinct_files.py, line for line)
values_equal(v1, v2, float_tol, case_sensitive) ==
    \E n1 \in {normalize_value(v1, case_sensitive)}, n2 \in {normalize_value(v2, case_sensitive)} :
      \E f1 \in {try_float(n1)}, f2 \in {try_float(n2)}, tol \in {TolOf(float_tol)} :
        IF n1 = Blank /\ n2 = Blank THEN TRUE
        ELSE IF \/ n1 = Blank /\ f2[1] /\ SmallFloat(f2[2], tol)
                \/ n2 = Blank /\ f1[1] /\ SmallFloat(f1[2], tol)
             THEN TRUE
        ELSE IF n1 = n2 THEN TRUE
        ELSE IF f1[1] /\ f2[1] THEN Within(f1[2], f2[2], tol)
        ELSE FALSE

-----------------------------------------------------------------------------
(* diff_precinct_files.py: the diff                                        *)

\* read_csv exits when a key column is missing
ReadCsvFails(file) == ~({Col(k) : k \in Range(KEYS)} \subseteq file.cols)

\* read_csv: the table with its key cells stripped
read_csv(file) ==
    [cols |-> file.cols,
     rows |-> [i \in DOMAIN file.rows |->
                 [c \in file.cols |->
                    IF c \in {Col(k) : k \in Range(KEYS)} THEN Strip(file.rows[i][c])
                    ELSE file.rows[i][c]]]]

PlainNames(F) == {c[1] : c \in F.cols}

\* the choice of lines 88-92 when --only-cols is not looked at
CompareSetShared(a, b, only_cols) == (PlainNames(a) \cap PlainNames(b)) \ Range(KEYS)

\* c.strip() for a piece c of the text of --only-cols, a string
RECURSIVE LStripText(_)
LStripText(c) ==
    IF c = "" THEN ""
    ELSE IF IsSpace(Head(c)) THEN LStripText(Tail(c)) ELSE c

RECURSIVE RStripText(_)
RStripText(c) ==
    IF c = "" THEN ""
    ELSE IF IsSpace(SubSeq(c, Len(c), Len(c))) THEN RStripText(SubSeq(c, 1, Len(c) - 1))
    ELSE c

StripText(c) == RStripText(LStripText(c))

\* c.strip() is empty, for a piece c of the text of --only-cols
BlankPiece(c) == StripText(c) = ""

\* the set compare_cols; only_cols is the text of the option split at its
\* commas, <<>> when the option is absent and <<"">> when its text is empty
CompareSet(a, b, only_cols) ==
    IF only_cols # <<>> /\ only_cols # <<"">>
    THEN {StripText(only_cols[i]) :
             i \in {j \in DOMAIN only_cols : ~BlankPiece(only_cols[j])}}
    ELSE (PlainNames(a) \cap PlainNames(b)) \ Range(KEYS)

\* the orders in which a set can be visited
VisitOrders(S) ==
    {q \in [1..Cardinality(S) -> S] : \A i, j \in DOMAIN q : i # j => q[i] # q[j]}

Indicator(x) == <<x>>

\* df1.merge(df2, on=KEYS, how="outer", suffixes=("__f1","__f2"),
\* indicator=True): a column of both files is suffixed, a column of one file
\* keeps its name
DiffMerge(a, b) ==
    LET keycols == {Col(k) : k \in Range(KEYS)}
        both == (a.cols \cap b.cols) \ keycols
        LName(c) == IF c \in both THEN Tagged(c[1], "f1") ELSE c
        RName(c) == IF c \in both THEN Tagged(c[1], "f2") ELSE c
        cols == {LName(c) : c \in a.cols} \cup {RName(c) : c \in b.cols} \cup {Col("_merge")}
        Cell(c, l, r, ind) ==
            IF c = Col("_merge") THEN Indicator(ind)
            ELSE IF c \in keycols THEN (IF ind = "right_only" THEN r[c] ELSE l[c])
            ELSE IF \E x \in a.cols \ keycols : LName(x) = c
                 THEN (IF ind = "right_only" THEN NA
                       ELSE l[CHOOSE x \in a.cols : LName(x) = c])
                 ELSE (IF ind = "left_only" THEN NA
                       ELSE r[CHOOSE x \in b.cols : RName(x) = c])
        keys == SortedSeqOf(KeysOf(a) \cup KeysOf(b))
        Group(k) ==
            LET lk == RowsWithKey(a, k)
                rk == RowsWithKey(b, k)
            IN IF lk # <<>> /\ rk # <<>>
               THEN Flatten([i \in DOMAIN lk |->
                       [j \in DOMAIN rk |-> [c \in cols |-> Cell(c, lk[i], rk[j], "both")]]])
               ELSE IF lk # <<>>
                    THEN [i \in DOMAIN lk |-> [c \in cols |-> Cell(c, lk[i], lk[i], "left_only")]]
                    ELSE [j \in DOMAIN rk |-> [c \in cols |-> Cell(c, rk[j], rk[j], "right_only")]]
    IN [cols |-> cols, rows |-> Flatten([n \in DOMAIN keys |-> Group(keys[n])])]

\* the record with the two sentinels exchanged
MissingRecordSwapped(row, typ) ==
    [state |-> row[Col("state")],
     county |-> row[Col("county")],
     precinct |-> row[Col("precinct")],
     diff_type |-> typ,
     column |-> "",
     file1_value |-> IF typ = "missing_in_file2" THEN <<"ROW_MISSING">> ELSE <<"ROW_PRESENT">>,
     file2_value |-> IF typ = "missing_in_file2" THEN <<"ROW_PRESENT">> ELSE <<"ROW_MISSING">>,
     description |-> <<typ>>]

MissingRecord(row, typ) ==
    [state |-> row[Col("state")],
     county |-> row[Col("county")],
     precinct |-> row[Col("precinct")],
     diff_type |-> typ,
     column |-> "",
     file1_value |-> IF typ = "missing_in_file2" THEN <<"ROW_PRESENT">> ELSE <<"ROW_MISSING">>,
     file2_value |-> IF typ = "missing_in_file2" THEN <<"ROW_MISSING">> ELSE <<"ROW_PRESENT">>,
     description |-> <<typ>>]

\* the record carrying the normalized values instead of the raw ones
MismatchRecordNormalized(row, col, float_tol, case_sensitive) ==
    [state |-> row[Col("state")],
     county |-> row[Col("county")],
     precinct |-> row[Col("precinct")],
     diff_type |-> "value_mismatch",
     column |-> col,
     file1_value |-> normalize_value(FillNa(row[Tagged(col, "f1")]), case_sensitive),
     file2_value |-> normalize_value(FillNa(row[Tagged(col, "f2")]), case_sensitive),
     description |-> <<"differs", col, float_tol, case_sensitive>>]

MismatchRecord(row, col, float_tol, case_sensitive) ==
    [state |-> row[Col("state")],
     county |-> row[Col("county")],
     precinct |-> row[Col("precinct")],
     diff_type |-> "value_mismatch",
     column |-> col,
     file1_value |-> FillNa(row[Tagged(col, "f1")]),
     file2_value |-> FillNa(row[Tagged(col, "f2")]),
     description |-> <<"differs", col, float_tol, case_sensitive>>]

RowsMarked(M, ind) == SelectSeq(M.rows, LAMBDA r : r[Col("_merge")] = Indicator(ind))

\* the value_mismatch records of one compared column
ColumnDiffs(M, col, float_tol, case_sensitive) ==
    IF Tagged(col, "f1") \notin M.cols \/ Tagged(col, "f2") \notin M.cols THEN <<>>
    ELSE LET both_df == RowsMarked(M, "both")
             bad == SelectSeq(both_df,
                       LAMBDA r : ~compare_values(r[Tagged(col, "f1")], r[Tagged(col, "f2")],
                                                  float_tol, case_sensitive))
         IN [i \in DOMAIN bad |-> MismatchRecord(bad[i], col, float_tol, case_sensitive)]

\* diffs after the three passes, the columns visited in the order cols
EmitDiffs(M, cols, float_tol, case_sensitive) ==
    LET f1only == RowsMarked(M, "left_only")
        f2only == RowsMarked(M, "right_only")
    IN [i \in DOMAIN f1only |-> MissingRecord(f1only[i], "missing_in_file2")]
       \o [i \in DOMAIN f2only |-> MissingRecord(f2only[i], "missing_in_file1")]
       \o Flatten([n \in DOMAIN cols |-> ColumnDiffs(M, cols[n], float_tol, case_sensitive)])

\* position of a diff_type in ascending string order
DiffTypeRank(t) ==
    CASE t = "missing_in_file1" -> 1
      [] t = "missing_in_file2" -> 2
      [] t = "value_mismatch" -> 3

\* the sort without its last key, the column
DiffSortKeyNoColumn(rec) ==
    <<rec.state, rec.county, rec.precinct, RankKey(DiffTypeRank(rec.diff_type))>>

DiffSortKey(rec) ==
    <<rec.state, rec.county, rec.precinct,
      RankKey(DiffTypeRank(rec.diff_type)), RankKey(ColumnRank(rec.column))>>

\* the diff table written in the order the records were appended
SortDiffsAsAppended(recs) == recs

\* out_df.sort_values(by=[state, county, precinct, diff_type, column], kind="stable")
SortDiffs(recs) == StableSort(recs, [i \in DOMAIN recs |-> DiffSortKey(recs[i])])

-----------------------------------------------------------------------------
(* Bounded inputs of the Differ                                            *)

MaxDiffRows == 2    \* rows over the two files of one run

\* raw identity cells: a key, the key in another letter case, the key with
\* a blank before it and a no-break space after it
DiffKeyPool ==
    { <<<<"a">>, <<"b">>, <<"p">>>>,
      <<<<"a">>, <<"b">>, <<"P">>>>,
      <<<<"a">>, <<"b">>, <<" ", "p", NBSP>>>> }

DiffRefReg == <<"1", "0">>
DiffRefTurnout == <<"A", "b">>

DiffRegVals == {DiffRefReg, <<"1", "0", ".", "5">>, Blank}

DiffTurnoutVals == {DiffRefTurnout, <<"a", "b">>, <<NBSP, "A", "b", " ">>}

\* <<registered_voters, overall_turnout>> of a row: the reference row with
\* at most one of the two cells changed
DiffCellPool ==
    {<<r, DiffRefTurnout>> : r \in DiffRegVals} \cup {<<DiffRefReg, o>> : o \in DiffTurnoutVals}

\* file1 is an original export, file2 a combined export: both hold
\* ballots_cast, which the combined export leaves blank, and only file1
\* holds total_votes
DiffFileCols(f) ==
    {Col(k) : k \in Range(KEYS)}
    \cup {Col("registered_voters"), Col("overall_turnout"), Col("ballots_cast")}
    \cup (IF f = 1 THEN {Col("total_votes")} ELSE {})

DiffInputRow(f, key, reg, turnout) ==
    [c \in DiffFileCols(f) |->
       CASE c = Col("state") -> key[1]
         [] c = Col("county") -> key[2]
         [] c = Col("precinct") -> key[3]
         [] c = Col("registered_voters") -> reg
         [] c = Col("overall_turnout") -> turnout
         [] c = Col("ballots_cast") -> (IF f = 1 THEN <<"3", "0">> ELSE Blank)
         [] c = Col("total_votes") -> <<"7">>]

\* rows tagged with the file (1 or 2) that holds them
DiffRowPool ==
    {<<f, DiffInputRow(f, k, v[1], v[2])>> : f \in {1, 2}, k \in DiffKeyPool, v \in DiffCellPool}

DiffFileOf(f, g) ==
    LET mine == SelectSeq(g, LAMBDA x : x[1] = f)
    IN [cols |-> DiffFileCols(f), rows |-> [i \in DOMAIN mine |-> mine[i][2]]]

\* what the two files may lack: nothing, or in one of them an identity column
DiffDefects == {<<>>} \cup {<<f, "county">> : f \in {1, 2}}

DiffWithDefect(f, file, d) ==
    IF d # <<>> /\ d[1] = f THEN DropCol(file, Col(d[2])) ELSE file

\* --float-tol in thousandths: 0 and 0.5
TolPool == {0, 500}

\* --only-cols as the pieces of its text between the commas; <<>> when the
\* option is absent; the third has a no-break space before total_votes and
\* a blank after state, the last is a comma before a blank and a no-break space
OnlyColsPool ==
    { <<>>, <<"registered_voters">>,
      <<"registered_voters", NBSP \o "total_votes", "state ">>,
      <<"", " " \o NBSP>> }

DiffInit ==
    /\ pc = "dstart"
    /\ \E n \in 0..MaxDiffRows :
         \E g \in [1..n -> DiffRowPool] :
            /\ \A i \in 1..(n - 1) : g[i][1] <= g[i + 1][1]
            /\ \E d \in DiffDefects :
                  /\ dfile1 = DiffWithDefect(1, DiffFileOf(1, g), d)
                  /\ dfile2 = DiffWithDefect(2, DiffFileOf(2, g), d)
    /\ dopts \in [float_tol : TolPool, case_sensitive : BOOLEAN, only_cols : OnlyColsPool]
    /\ df1 = <<>>
    /\ df2 = <<>>
    /\ compare_cols = <<>>
    /\ diffs = <<>>
    /\ diff_csv = <<>>
    /\ argv = <<>>
    /\ fail_on_errors = FALSE
    /\ per_type = <<>>
    /\ merged = <<>>
    /\ conflict_rows = <<>>
    /\ printed = <<>>
    /\ err_csv = <<>>
    /\ out_csv = <<>>
    /\ written = {}
    /\ exit_code = 0
    /\ eq_call = <<>>
    /\ eq_ret = <<>>

-----------------------------------------------------------------------------
(* Differ: the steps of main()                                             *)

\* lines 84-92: read the two files and decide which columns to compare; the
\* set compare_cols is visited in an order the run does not control
DiffRead ==
    /\ pc = "dstart"
    /\ IF ReadCsvFails(dfile1) \/ ReadCsvFails(dfile2)
       THEN /\ pc' = "exit"
            /\ exit_code' = 1
            /\ UNCHANGED <<df1, df2, compare_cols>>
       ELSE /\ pc' = "dread"
            /\ exit_code' = exit_code
            /\ df1' = read_csv(dfile1)
            /\ df2' = read_csv(dfile2)
            /\ compare_cols' \in
                 VisitOrders(CompareSet(read_csv(dfile1), read_csv(dfile2), dopts.only_cols))
    /\ UNCHANGED <<dfile1, dfile2, dopts, diffs, diff_csv, written>>
    /\ UNCHANGED combineVars
    /\ UNCHANGED eqVars

\* lines 94-154: outer merge, then the three passes that append to diffs
DiffCompare ==
    /\ pc = "dread"
    /\ pc' = "compared"
    /\ diffs' = EmitDiffs(DiffMerge(df1, df2), compare_cols,
                          dopts.float_tol, dopts.case_sensitive)
    /\ UNCHANGED <<dfile1, dfile2, dopts, df1, df2, compare_cols, diff_csv, written, exit_code>>
    /\ UNCHANGED combineVars
    /\ UNCHANGED eqVars

\* lines 156-162: sort and write the diff table
DiffWrite ==
    /\ pc = "compared"
    /\ pc' = "exit"
    /\ diff_csv' = SortDiffs(diffs)
    /\ written' = written \cup {"diff"}
    /\ UNCHANGED <<dfile1, dfile2, dopts, df1, df2, compare_cols, diffs, exit_code>>
    /\ UNCHANGED combineVars
    /\ UNCHANGED eqVars

DiffNext == DiffRead \/ DiffCompare \/ DiffWrite

SpecDiff == DiffInit /\ [][DiffNext]_vars

-----------------------------------------------------------------------------
(* streamlit_app.py: diff_dataframes, the extended Differ                  *)
(* dfile1 and dfile2 are the caller's two tables; df1 and df2 are the      *)
(* function's parameters, which name the same two objects.                 *)

\* lines 423-425: a key column is missing in one of the tables
XKeyMissing(a, b) ==
    \E k \in Range(KEYS) : Col(k) \notin a.cols \/ Col(k) \notin b.cols

\* lines 426-428: df[k] = df[k].astype(str).str.strip() for the keys
XStripKeys(df) ==
    [cols |-> df.cols,
     rows |-> [i \in DOMAIN df.rows |->
                 [c \in df.cols |->
                    IF c \in {Col(k) : k \in Range(KEYS)} THEN Strip(df.rows[i][c])
                    ELSE df.rows[i][c]]]]

\* sorted(names)
SortNames(names) ==
    StableSort(names, [i \in DOMAIN names |-> <<RankKey(ColumnRank(names[i]))>>])

\* the columns to compare when line 433 is left out
XCompareColsKeepAll(a, b, opt) ==
    LET shared == (PlainNames(a) \cap PlainNames(b)) \ Range(KEYS)
        given == IF opt = <<>> THEN CHOOSE q \in VisitOrders(shared) : TRUE ELSE opt[1]
    IN SortNames(given)

\* lines 430-434: the list of columns to compare; opt is <<>> for None and
\* <<list>> for a list
XCompareCols(a, b, opt) ==
    LET shared == (PlainNames(a) \cap PlainNames(b)) \ Range(KEYS)
        given == IF opt = <<>> THEN CHOOSE q \in VisitOrders(shared) : TRUE ELSE opt[1]
    IN SortNames(SelectSeq(given, LAMBDA c : c # "ballots_cast"))

XMismatchRecord(row, col) ==
    [state |-> row[Col("state")],
     county |-> row[Col("county")],
     precinct |-> row[Col("precinct")],
     diff_type |-> "value_mismatch",
     column |-> col,
     file1_value |-> FillNa(row[Tagged(col, "f1")]),
     file2_value |-> FillNa(row[Tagged(col, "f2")]),
     description |-> <<"differs", col>>]

\* lines 459-472: the value_mismatch records of one compared column
XColumnDiffs(M, col, float_tol, case_sensitive) ==
    IF Tagged(col, "f1") \notin M.cols \/ Tagged(col, "f2") \notin M.cols THEN <<>>
    ELSE LET both_df == RowsMarked(M, "both")
             bad == SelectSeq(both_df,
                       LAMBDA r : ~values_equal(FillNa(r[Tagged(col, "f1")]),
                                                FillNa(r[Tagged(col, "f2")]),
                                                float_tol, case_sensitive))
         IN [i \in DOMAIN bad |-> XMismatchRecord(bad[i], col)]

\* lines 437-472: diffs after the three passes
XEmitDiffs(M, cols, float_tol, case_sensitive) ==
    LET f1only == RowsMarked(M, "left_only")
        f2only == RowsMarked(M, "right_only")
    IN [i \in DOMAIN f1only |-> MissingRecord(f1only[i], "missing_in_file2")]
       \o [i \in DOMAIN f2only |-> MissingRecord(f2only[i], "missing_in_file1")]
       \o Flatten([n \in DOMAIN cols |-> XColumnDiffs(M, cols[n], float_tol, case_sensitive)])

\* the compare_cols argument: None, or a list of the caller's choosing
XColsPool ==
    { <<>>, <<<<"registered_voters">>>>, <<<<"registered_voters", "ballots_cast">>>>,
      <<<<"total_votes", "state", "registered_voters">>>> }

XDiffInit ==
    /\ pc = "xstart"
    /\ \E n \in 0..MaxDiffRows :
         \E g \in [1..n -> DiffRowPool] :
            /\ \A i \in 1..(n - 1) : g[i][1] <= g[i + 1][1]
            /\ \E d \in DiffDefects :
                  /\ dfile1 = DiffWithDefect(1, DiffFileOf(1, g), d)
                  /\ dfile2 = DiffWithDefect(2, DiffFileOf(2, g), d)
    /\ dopts \in [float_tol : TolPool, case_sensitive : BOOLEAN, compare_cols : XColsPool]
    /\ df1 = <<>>
    /\ df2 = <<>>
    /\ compare_cols = <<>>
    /\ diffs = <<>>
    /\ diff_csv = <<>>
    /\ argv = <<>>
    /\ fail_on_errors = FALSE
    /\ per_type = <<>>
    /\ merged = <<>>
    /\ conflict_rows = <<>>
    /\ printed = <<>>
    /\ err_csv = <<>>
    /\ out_csv = <<>>
    /\ written = {}
    /\ exit_code = 0
    /\ eq_call = <<>>
    /\ eq_ret = <<>>

\* lines 422-434: check the key columns (ValueError when one is missing),
\* strip the key cells of the two tables in place, choose the columns
XDiffEnter ==
    /\ pc = "xstart"
    /\ IF XKeyMissing(dfile1, dfile2)
       THEN /\ pc' = "xraise"
            /\ UNCHANGED <<dfile1, dfile2, df1, df2, compare_cols>>
       ELSE /\ pc' = "xread"
            /\ dfile1' = XStripKeys(dfile1)
            /\ dfile2' = XStripKeys(dfile2)
            /\ df1' = XStripKeys(dfile1)
            /\ df2' = XStripKeys(dfile2)
            /\ compare_cols' = XCompareCols(dfile1, dfile2, dopts.compare_cols)
    /\ UNCHANGED <<dopts, diffs, diff_csv, written, exit_code>>
    /\ UNCHANGED combineVars
    /\ UNCHANGED eqVars

\* lines 436-472: outer merge, then the three passes that append to diffs
XDiffCompare ==
    /\ pc = "xread"
    /\ pc' = "xcompared"
    /\ diffs' = XEmitDiffs(DiffMerge(df1, df2), compare_cols,
                           dopts.float_tol, dopts.case_sensitive)
    /\ UNCHANGED <<dfile1, dfile2, dopts, df1, df2, compare_cols, diff_csv, written, exit_code>>
    /\ UNCHANGED combineVars
    /\ UNCHANGED eqVars

\* lines 474-476: sort and return the diff table, which the caller shows
\* and offers for download (lines 571-577)
XDiffReturn ==
    /\ pc = "xcompared"
    /\ pc' = "xreturn"
    /\ diff_csv' = SortDiffs(diffs)
    /\ written' = written \cup {"diff"}
    /\ UNCHANGED <<dfile1, dfile2, dopts, df1, df2, compare_cols, diffs, exit_code>>
    /\ UNCHANGED combineVars
    /\ UNCHANGED eqVars

XDiffNext == XDiffEnter \/ XDiffCompare \/ XDiffReturn

\* the two Differ variants
SpecDiffers == (DiffInit \/ XDiffInit) /\ [][DiffNext \/ XDiffNext]_vars

\* the three tools
SpecAll ==
    (CombineInit \/ DiffInit \/ XDiffInit) /\ [][CombineNext \/ DiffNext \/ XDiffNext]_vars

-----------------------------------------------------------------------------
(* The equality relation of the two Differ variants, called on its own     *)

\* cell values: blank, whitespace (a blank and a no-break space), zero in
\* several spellings (one after a line tabulation), numbers a tenth, a
\* thousandth and a half apart, names that differ in case or padding
EqVals ==
    { Blank, <<" ", NBSP>>, <<"0">>, <<"0", ".", "0">>, <<VT, "0">>, <<"0", ".", "5">>,
      <<"1", ".", "0">>, <<"1", ".", "1">>, <<"1", "0", ".", "0">>,
      <<"1", "0", ".", "0", "0", "1">>, <<"A", "b">>, <<"a", "b">>, <<NBSP, "A", "b", " ">>,
      <<"1", "x">>, <<"-">> }

\* tolerances in thousandths: 0, 0.01, 0.1 and 0.5
EqTols == {0, 10, 100, 500}

EqInit ==
    /\ pc = "eq"
    /\ eq_call \in [v1 : EqVals, v2 : EqVals, float_tol : EqTols, case_sensitive : BOOLEAN]
    /\ eq_ret = [variant \in {} |-> FALSE]
    /\ argv = <<>>
    /\ fail_on_errors = FALSE
    /\ per_type = <<>>
    /\ merged = <<>>
    /\ conflict_rows = <<>>
    /\ printed = <<>>
    /\ err_csv = <<>>
    /\ out_csv = <<>>
    /\ written = {}
    /\ exit_code = 0
    /\ dfile1 = <<>>
    /\ dfile2 = <<>>
    /\ dopts = <<>>
    /\ df1 = <<>>
    /\ df2 = <<>>
    /\ compare_cols = <<>>
    /\ diffs = <<>>
    /\ diff_csv = <<>>

\* diff_precinct_files.py line 142: a call of compare_values
CallCompareValues ==
    /\ pc = "eq"
    /\ "cli" \notin DOMAIN eq_ret
    /\ eq_ret' = [variant \in DOMAIN eq_ret \cup {"cli"} |->
                    IF variant = "cli"
                    THEN compare_values(eq_call.v1, eq_call.v2,
                                        eq_call.float_tol, eq_call.case_sensitive)
                    ELSE eq_ret[variant]]
    /\ UNCHANGED <<pc, eq_call, written, exit_code>>
    /\ UNCHANGED combineVars
    /\ UNCHANGED diffVars

\* streamlit_app.py line 466: a call of values_equal
CallValuesEqual ==
    /\ pc = "eq"
    /\ "ext" \notin DOMAIN eq_ret
    /\ eq_ret' = [variant \in DOMAIN eq_ret \cup {"ext"} |->
                    IF variant = "ext"
                    THEN values_equal(eq_call.v1, eq_call.v2,
                                      eq_call.float_tol, eq_call.case_sensitive)
                    ELSE eq_ret[variant]]
    /\ UNCHANGED <<pc, eq_call, written, exit_code>>
    /\ UNCHANGED combineVars
    /\ UNCHANGED diffVars

EqNext == CallCompareValues \/ CallValuesEqual

SpecEq == EqInit /\ [][EqNext]_vars

-----------------------------------------------------------------------------
(* What the claims about the Combiner speak of                             *)

\* the run has ended with its combined table written
CombineDone == pc = "exit" /\ "out" \in written

\* the key of an input row as the program identifies it
StrippedKey(row) ==
    <<Strip(row[Col("state")]), Strip(row[Col("county")]), Strip(row[Col("precinct")])>>

\* the rows of the file of t that carry key k
InputRowsOf(t, k) == SelectSeq(argv[t].rows, LAMBDA r : StrippedKey(r) = k)

\* every key of every supplied file
InputKeys ==
    UNION {{StrippedKey(argv[t].rows[i]) : i \in DOMAIN argv[t].rows} : t \in DOMAIN argv}

OutKeys == {KeyOf(out_csv[i]) : i \in DOMAIN out_csv}

ErrKeys == {RecKey(err_csv[i]) : i \in DOMAIN err_csv}

\* the non-empty values the file of t reports for key k in column col
Reported(t, k, col) ==
    IF Col(col) \in argv[t].cols
    THEN {InputRowsOf(t, k)[i][Col(col)] : i \in DOMAIN InputRowsOf(t, k)} \ {Blank}
    ELSE {}

\* the sources that report a non-empty value
Reporting(k, col) == {t \in DOMAIN argv : Reported(t, k, col) # {}}

AllReported(k, col) == UNION {Reported(t, k, col) : t \in DOMAIN argv}

\* no file holds key k on two rows
UniqueInEachFile(k) == \A t \in DOMAIN argv : Len(InputRowsOf(t, k)) <= 1

\* two different sources report different non-empty values
InConflict(k, col) ==
    \E t1, t2 \in DOMAIN argv :
        /\ t1 # t2
        /\ \E v1 \in Reported(t1, k, col), v2 \in Reported(t2, k, col) : v1 # v2

SharedConflict(k) == \E i \in DOMAIN SHARED_REG_COLS : InConflict(k, SHARED_REG_COLS[i])

\* the conflict records of the report for key k and column col
RecordsFor(k, col) == SelectSeq(err_csv, LAMBDA r : RecKey(r) = k /\ r.column = col)

\* C1: at the end of a run the keys of the combined table together with the
\* keys of the conflict report are exactly the keys of the input files.
C1_KeyCompleteness == CombineDone => OutKeys \cup ErrKeys = InputKeys

\* two files, each holding a key the other lacks, and both keys written
C1_Witness ==
    /\ CombineDone
    /\ \E t1, t2 \in DOMAIN argv, k1, k2 \in OutKeys :
          /\ t1 # t2 /\ k1 # k2
          /\ InputRowsOf(t1, k1) # <<>> /\ InputRowsOf(t2, k1) = <<>>
          /\ InputRowsOf(t2, k2) # <<>> /\ InputRowsOf(t1, k2) = <<>>

\* C2: no key is both in the combined table and in the conflict report.
C2_ConflictExclusivity == CombineDone => OutKeys \cap ErrKeys = {}

\* a run that reported a conflict and merged rows for the conflicted key
C2_Witness ==
    /\ CombineDone
    /\ ErrKeys # {}
    /\ \E t1, t2 \in DOMAIN argv, k \in ErrKeys :
          t1 # t2 /\ InputRowsOf(t1, k) # <<>> /\ InputRowsOf(t2, k) # <<>>

\* C3: a key with a conflict in at least one shared registration field has
\* no row in the combined table.
C3_AllOrNothingDrop ==
    CombineDone => \A k \in InputKeys : SharedConflict(k) => k \notin OutKeys

\* C4: for a key held at most once by each file and a shared field, the
\* report holds records iff the sources report more than one distinct
\* non-empty value, and then exactly one record per reporting source.
C4_ConflictDetection ==
    CombineDone =>
      \A k \in InputKeys : \A n \in DOMAIN SHARED_REG_COLS :
        LET col == SHARED_REG_COLS[n]
            recs == RecordsFor(k, col)
        IN UniqueInEachFile(k) =>
             IF Cardinality(AllReported(k, col)) > 1
             THEN /\ Len(recs) = Cardinality(Reporting(k, col))
                  /\ {recs[i].source_type : i \in DOMAIN recs} = Reporting(k, col)
             ELSE recs = <<>>

\* C5: for a key without conflict, held at most once by each file, a shared
\* field of the combined row is the one non-empty value the sources report,
\* and empty when none reports one.
C5_SharedFieldValue ==
    CombineDone =>
      \A i \in DOMAIN out_csv : \A n \in DOMAIN SHARED_REG_COLS :
        LET k == KeyOf(out_csv[i])
            col == SHARED_REG_COLS[n]
            vals == AllReported(k, col)
        IN (UniqueInEachFile(k) /\ Cardinality(vals) <= 1) =>
             IF vals = {} THEN out_csv[i][Col(col)] = Blank
             ELSE out_csv[i][Col(col)] \in vals

\* the value of the first vote type, in priority order, that reports one
RECURSIVE FirstReported(_, _, _)
FirstReported(types, k, col) ==
    IF types = <<>> THEN Blank
    ELSE IF Head(types) \in DOMAIN argv /\ Reported(Head(types), k, col) # {}
         THEN CHOOSE v \in Reported(Head(types), k, col) : TRUE
         ELSE FirstReported(Tail(types), k, col)

\* C6: for a key held at most once by each file, overall_turnout and
\* ballots_cast of the combined row are the value of the first vote type in
\* the order total, eday, early, absentee, mailin with a non-empty value.
C6_PriorityCoalescing ==
    CombineDone =>
      \A i \in DOMAIN out_csv : \A n \in DOMAIN NONSHARED_BASE_COLS :
        LET k == KeyOf(out_csv[i])
            col == NONSHARED_BASE_COLS[n]
        IN UniqueInEachFile(k) =>
             out_csv[i][Col(col)] = FirstReported(TYPE_PRIORITY, k, col)

\* C7: every conflict record names a shared registration column, and a key
\* whose sources agree on the shared fields has no record and keeps its row,
\* whatever the sources say about overall_turnout and ballots_cast.
C7_BaseFieldsNeverConflict ==
    /\ \A i \in DOMAIN conflict_rows : conflict_rows[i].column \in Range(SHARED_REG_COLS)
    /\ CombineDone =>
         \A k \in InputKeys : ~SharedConflict(k) => (k \notin ErrKeys /\ k \in OutKeys)

\* two sources disagree on overall_turnout and on ballots_cast for a key
\* that is written
C7_Witness ==
    /\ CombineDone
    /\ \E k \in OutKeys :
          /\ InConflict(k, "overall_turnout")
          /\ InConflict(k, "ballots_cast")
          /\ ~SharedConflict(k)

\* C8: in every combined row the triplet of a vote type is the triplet of a
\* row with that key in that type's own file, and is blank when the type was
\* not supplied or its file lacks the key.
C8_TripletOwnership ==
    CombineDone =>
      \A i \in DOMAIN out_csv : \A n \in DOMAIN VTypes :
        LET k == KeyOf(out_csv[i])
            t == VTypes[n]
            trip == Range(VTYPE_TO_COLS(t))
        IN IF t \in DOMAIN argv /\ InputRowsOf(t, k) # <<>>
           THEN \E j \in DOMAIN InputRowsOf(t, k) :
                   \A c \in trip : out_csv[i][Col(c)] = InputRowsOf(t, k)[j][Col(c)]
           ELSE \A c \in trip : out_csv[i][Col(c)] = Blank

\* a written row with the triplet of one supplied type filled from its file
\* and the triplet of another supplied type, whose file lacks the key and
\* whose column the first file also holds, blank
C8_Witness ==
    /\ CombineDone
    /\ \E i \in DOMAIN out_csv, t1, t2 \in DOMAIN argv :
          LET k == KeyOf(out_csv[i])
          IN /\ t1 # t2
             /\ InputRowsOf(t1, k) # <<>>
             /\ InputRowsOf(t2, k) = <<>>
             /\ ForeignCol(t1) \in Range(VTYPE_TO_COLS(t2))
             /\ out_csv[i][Col(VTYPE_TO_COLS(t1)[1])] # Blank
             /\ out_csv[i][Col(ForeignCol(t1))] = Blank

\* s is in ascending order of its keys
Ascending(keys) ==
    \A i, j \in DOMAIN keys : i < j => ~TupLess(keys[j], keys[i])

\* C9: the combined table is in ascending (state, county, precinct) order and
\* the conflict report in ascending (state, county, precinct, column,
\* source_type) order.
C9_OutputOrdering ==
    /\ Ascending([i \in DOMAIN out_csv |-> KeyOf(out_csv[i])])
    /\ Ascending([i \in DOMAIN err_csv |-> ConflictSortKey(err_csv[i])])

\* a conflict report whose records were not emitted in report order
C9_Witness ==
    /\ CombineDone
    /\ Len(err_csv) >= 2
    /\ err_csv # conflict_rows

-----------------------------------------------------------------------------
(* What the claims about the Differ speak of                               *)

\* the run has ended with its diff table written
DiffDone == pc = "exit" /\ "diff" \in written

\* C10: the written diff table is the same whatever the order in which the
\* run visits the set of compared columns: every visiting order gives the
\* rows that were written, in the same order.
C10_Determinism ==
    DiffDone =>
      \A q \in VisitOrders(Range(compare_cols)) :
         SortDiffs(EmitDiffs(DiffMerge(df1, df2), q, dopts.float_tol, dopts.case_sensitive))
           = diff_csv

\* a run that visited the columns in descending order and found mismatches
\* in two columns of one row
C10_Witness ==
    /\ DiffDone
    /\ \E m, n \in DOMAIN compare_cols :
          m < n /\ compare_cols[m] = "registered_voters" /\ compare_cols[n] = "overall_turnout"
    /\ \E i, j \in DOMAIN diff_csv :
          /\ diff_csv[i].column = "overall_turnout"
          /\ diff_csv[j].column = "registered_voters"
          /\ <<diff_csv[i].state, diff_csv[i].county, diff_csv[i].precinct>>
               = <<diff_csv[j].state, diff_csv[j].county, diff_csv[j].precinct>>
    /\ diffs # diff_csv

-----------------------------------------------------------------------------
(* What the claims about errors and statuses speak of                      *)

\* which tool the run is a run of
InCombiner ==
    pc \in {"start", "read", "merged", "reported"} \/ (pc = "exit" /\ DOMAIN dopts = {})

InCliDiffer ==
    pc \in {"dstart", "dread", "compared"} \/ (pc = "exit" /\ DOMAIN dopts # {})

InExtDiffer == pc \in {"xstart", "xread", "xcompared", "xreturn", "xraise"}

\* no input was supplied, or a supplied input lacks an identity column or a
\* column of its own triplet
CombinerInputDefective ==
    \/ DOMAIN argv = {}
    \/ \E t \in DOMAIN argv :
          \E c \in Range(ID_COLS) \cup Range(VTYPE_TO_COLS(t)) : Col(c) \notin argv[t].cols

\* one of the two tables lacks an identity column
DifferInputDefective ==
    \E k \in Range(KEYS) : Col(k) \notin dfile1.cols \/ Col(k) \notin dfile2.cols

FatalConfiguration ==
    \/ InCombiner /\ CombinerInputDefective
    \/ (InCliDiffer \/ InExtDiffer) /\ DifferInputDefective

NothingProduced ==
    written = {} /\ out_csv = <<>> /\ err_csv = <<>> /\ diff_csv = <<>>

\* the run is over with the error status (exit status 1, or ValueError)
ErrorState == (pc = "exit" /\ exit_code = 1) \/ pc = "xraise"

\* C11: a run on a fatal configuration (a Combiner input without an identity
\* or own-triplet column, no Combiner input at all, a Differ input without
\* an identity column) goes from its start straight to the error state, and
\* at no point has any output been produced.
C11_FatalErrorsWriteNothing ==
    FatalConfiguration =>
       /\ NothingProduced
       /\ pc \in {"start", "dstart", "xstart"} \/ ErrorState

\* a Combiner run that ended in the error state because the file of a vote
\* type other than the first lacks a column of its triplet, the files
\* holding rows
C11_Witness ==
    /\ InCombiner /\ ErrorState
    /\ \E t1, t2 \in DOMAIN argv :
          /\ TypeIndex(t1) < TypeIndex(t2)
          /\ argv[t1].rows # <<>> /\ argv[t2].rows # <<>>
          /\ MissingCols(t1, argv[t1]) = {} /\ ~ReadOneFails(argv[t1]) /\ ~ReadOneFails(argv[t2])
          /\ MissingCols(t2, argv[t2]) # {}

\* the run is over and its inputs were well-formed
CombineEnded == InCombiner /\ pc = "exit" /\ ~CombinerInputDefective

\* some key has a conflict in a shared registration field
RunHasConflict == \E k \in InputKeys : SharedConflict(k)

\* the two tables are those the inputs determine, whatever the flag
TablesFromInputsAlone ==
    LET M == merge_frames(per_type)
        R == DetectConflicts(M, DOMAIN argv)
    IN /\ err_csv = SortConflicts(R)
       /\ out_csv = CombinedTable(DropConflicted(M, R))

\* C12: a run with a conflict writes the conflict report and the combined
\* table and ends with status 0 without --fail-on-errors and status 2 with
\* it, the two written tables not depending on the flag; a run without
\* conflict ends with status 0 whether or not the flag is set.
C12_ConflictsNonFatal ==
    CombineEnded =>
       /\ "out" \in written
       /\ TablesFromInputsAlone
       /\ IF RunHasConflict
          THEN "err" \in written /\ exit_code = (IF fail_on_errors THEN 2 ELSE 0)
          ELSE exit_code = 0

-----------------------------------------------------------------------------
(* What the claims about the two Differs speak of                          *)

\* a Differ run is over and has produced its diff table
DiffersDone == DiffDone \/ pc = "xreturn"

\* the keys of a table, and its rows that carry key k
TableKeys(file) == {StrippedKey(file.rows[i]) : i \in DOMAIN file.rows}

TableRows(file, k) == SelectSeq(file.rows, LAMBDA r : StrippedKey(r) = k)

DiffRecKey(rec) == <<rec.state, rec.county, rec.precinct>>

\* the records of the diff table for key k
DiffRecsOf(k) == SelectSeq(diff_csv, LAMBDA rec : DiffRecKey(rec) = k)

\* C13: every row whose key occurs only in file1 yields exactly one record,
\* of type missing_in_file2 with empty column, file1_value ROW_PRESENT and
\* file2_value ROW_MISSING; every row whose key occurs only in file2 yields
\* exactly one missing_in_file1 record with the sentinels swapped; such a
\* key has no other record, so no value_mismatch.
C13_RowPresence ==
    DiffersDone =>
      \A k \in TableKeys(dfile1) \cup TableKeys(dfile2) :
        LET recs == DiffRecsOf(k)
        IN /\ k \notin TableKeys(dfile2) =>
                /\ Len(recs) = Len(TableRows(dfile1, k))
                /\ \A i \in DOMAIN recs :
                      /\ recs[i].diff_type = "missing_in_file2"
                      /\ recs[i].column = ""
                      /\ recs[i].file1_value = <<"ROW_PRESENT">>
                      /\ recs[i].file2_value = <<"ROW_MISSING">>
           /\ k \notin TableKeys(dfile1) =>
                /\ Len(recs) = Len(TableRows(dfile2, k))
                /\ \A i \in DOMAIN recs :
                      /\ recs[i].diff_type = "missing_in_file1"
                      /\ recs[i].column = ""
                      /\ recs[i].file1_value = <<"ROW_MISSING">>
                      /\ recs[i].file2_value = <<"ROW_PRESENT">>

\* a run of the extended Differ on two files whose keys differ in letter
\* case only: one row missing in each file
C13_Witness ==
    /\ pc = "xreturn"
    /\ \E k1 \in TableKeys(dfile1) \ TableKeys(dfile2), k2 \in TableKeys(dfile2) \ TableKeys(dfile1) :
          /\ Lower(k1[3]) = Lower(k2[3])
          /\ Len(diff_csv) = 2

\* the equality relation of the variant that ran
RanEqual(v1, v2) ==
    IF pc = "xreturn" THEN values_equal(v1, v2, dopts.float_tol, dopts.case_sensitive)
    ELSE compare_values(v1, v2, dopts.float_tol, dopts.case_sensitive)

\* the compared columns that both files hold
ComparedInBoth ==
    {c \in Range(compare_cols) : Col(c) \in dfile1.cols /\ Col(c) \in dfile2.cols}
    \ Range(KEYS)

\* the pairs <<file1 cell, file2 cell>> of column c over the rows of key k,
\* file1 rows first, that are not equal
UnequalPairs(k, c) ==
    LET r1 == TableRows(dfile1, k)
        r2 == TableRows(dfile2, k)
        all == Flatten([i \in DOMAIN r1 |-> [j \in DOMAIN r2 |-> <<r1[i][Col(c)], r2[j][Col(c)]>>]])
    IN SelectSeq(all, LAMBDA pr : ~RanEqual(pr[1], pr[2]))

\* the value_mismatch records of the diff table for key k and column c
MismatchesOf(k, c) ==
    SelectSeq(diff_csv, LAMBDA rec : /\ DiffRecKey(rec) = k
                                     /\ rec.diff_type = "value_mismatch"
                                     /\ rec.column = c)

\* every value_mismatch record names a compared column that both files hold
\* and a key that both files hold
MismatchesWellPlaced ==
    \A i \in DOMAIN diff_csv :
       diff_csv[i].diff_type = "value_mismatch" =>
          /\ diff_csv[i].column \in ComparedInBoth
          /\ DiffRecKey(diff_csv[i]) \in TableKeys(dfile1) \cap TableKeys(dfile2)

\* C14 (as stated): for every key present in both files and every compared
\* column present in both files, the diff table holds exactly one
\* value_mismatch record for that (key, column) iff the cells of the key in
\* the two files are not equal under the equality relation, and none
\* otherwise; the record names the column and carries the two raw input
\* strings unchanged.
C14_CellComparison ==
    DiffersDone =>
      /\ \A k \in TableKeys(dfile1) \cap TableKeys(dfile2) : \A c \in ComparedInBoth :
            LET recs == MismatchesOf(k, c)
            IN /\ Len(recs) = (IF UnequalPairs(k, c) # <<>> THEN 1 ELSE 0)
               /\ \A i \in DOMAIN recs :
                     <<recs[i].file1_value, recs[i].file2_value>> \in Range(UnequalPairs(k, c))
      /\ MismatchesWellPlaced

\* C14 (amended): for a key present in both files and a compared column
\* present in both, the diff table holds one value_mismatch record for each
\* pair of a file1 row and a file2 row of the key whose cells are not equal
\* (so exactly one for a key held once by each file, and only if the two
\* cells are not equal) and none for a pair of equal cells; the record names
\* the column and carries the two raw input strings; no value_mismatch
\* record names another column or another key.
C14_CellComparisonAmended ==
    DiffersDone =>
      /\ \A k \in TableKeys(dfile1) \cap TableKeys(dfile2) : \A c \in ComparedInBoth :
            LET recs == MismatchesOf(k, c)
            IN [i \in DOMAIN recs |-> <<recs[i].file1_value, recs[i].file2_value>>]
                 = UnequalPairs(k, c)
      /\ MismatchesWellPlaced

\* a case-sensitive run on a table given as both files, in which a key is
\* held by two rows: the padded, capitalised cell of one row is reported
\* against the lower-case cell of the other and the other way round, each as
\* it was read, next to a column whose cells are equal
C14_Witness ==
    /\ DiffersDone
    /\ \E k \in TableKeys(dfile1) \cap TableKeys(dfile2) :
          LET recs == MismatchesOf(k, "overall_turnout")
          IN /\ Len(recs) = 2
             /\ \E i, j \in DOMAIN recs :
                   /\ recs[i].file1_value = <<NBSP, "A", "b", " ">>
                   /\ recs[i].file2_value = <<"a", "b">>
                   /\ recs[j].file1_value = <<"a", "b">>
                   /\ recs[j].file2_value = <<NBSP, "A", "b", " ">>
             /\ "registered_voters" \in ComparedInBoth
             /\ MismatchesOf(k, "registered_voters") = <<>>

-----------------------------------------------------------------------------
(* What the claims about the equality relation speak of                    *)

\* the two arguments of the call, normalized as the call's case mode says
EqN1 == normalize_value(eq_call.v1, eq_call.case_sensitive)

EqN2 == normalize_value(eq_call.v2, eq_call.case_sensitive)

\* the number a numeral with at most three decimals denotes, in thousandths
Thousandths(s) ==
    LET u == Unsigned(s)
        dot == IF \E i \in DOMAIN u : u[i] = "." THEN CHOOSE i \in DOMAIN u : u[i] = "."
               ELSE Len(u) + 1
        decimals == SubSeq(u, dot + 1, Len(u))
        mag == IntOf(SubSeq(u, 1, dot - 1)) * Scale
               + IntOf(decimals) * 10 ^ (3 - Len(decimals))
    IN IF u # s THEN 0 - mag ELSE mag

Distance(x, y) == IF x < y THEN y - x ELSE x - y

\* C15: in both variants, two values that both parse as numbers and whose
\* normalized strings differ are equal iff the absolute difference of the
\* two numbers is at most the tolerance.
C15_NumericTolerance ==
    \A variant \in DOMAIN eq_ret :
       (IsFloat(EqN1) /\ IsFloat(EqN2) /\ EqN1 # EqN2) =>
          (eq_ret[variant] <=> Distance(Thousandths(EqN1), Thousandths(EqN2)) <= eq_call.float_tol)

\* ---------------------------------------------------------------------------
\* C16  Blank/zero equivalence in the extended differ
\* ---------------------------------------------------------------------------

\* the value of the call that is not blank after trimming, when exactly one is
EqOther == IF Strip(eq_call.v1) = Blank THEN EqN2 ELSE EqN1

ExactlyOneBlank == (Strip(eq_call.v1) = Blank) # (Strip(eq_call.v2) = Blank)

\* C16: in values_equal, when exactly one side is blank after trimming, the
\* two values are equal iff the other side parses as a number whose absolute
\* value is at most the tolerance; at tolerance 0 a blank equals "0" and "0.0"
\* but not "0.5", and a blank never equals a non-numeric non-blank string.
C16_BlankZeroEquivalence ==
    ("ext" \in DOMAIN eq_ret /\ ExactlyOneBlank) =>
       /\ eq_ret["ext"] <=>
             (IsFloat(EqOther) /\ Distance(Thousandths(EqOther), 0) <= eq_call.float_tol)
       /\ (eq_call.float_tol = 0 /\ EqOther \in {<<"0">>, <<"0", ".", "0">>}) => eq_ret["ext"]
       /\ (eq_call.float_tol = 0 /\ EqOther = <<"0", ".", "5">>) => ~eq_ret["ext"]
       /\ ~IsFloat(EqOther) => ~eq_ret["ext"]

\* values_equal has answered "equal" for a whitespace-only value against "0.0"
\* at tolerance 0
C16_Witness ==
    /\ "ext" \in DOMAIN eq_ret
    /\ eq_call.v1 = <<" ", NBSP>>
    /\ eq_call.v2 = <<"0", ".", "0">>
    /\ eq_call.float_tol = 0
    /\ eq_ret["ext"]

\* ---------------------------------------------------------------------------
\* C17  Case-sensitivity toggle
\* ---------------------------------------------------------------------------

\* the two values of the call are non-numeric and, once their surrounding
\* whitespace is removed, differ at most in letter case
SameUpToCase ==
    /\ ~IsFloat(Strip(eq_call.v1))
    /\ ~IsFloat(Strip(eq_call.v2))
    /\ Lower(Strip(eq_call.v1)) = Lower(Strip(eq_call.v2))

\* C17: in both differ variants, two non-numeric values that differ only in
\* letter case are equal in case-insensitive mode and a mismatch in
\* case-sensitive mode; surrounding whitespace is ignored in both modes.
C17_CaseToggle ==
    \A variant \in DOMAIN eq_ret :
       SameUpToCase =>
          (eq_ret[variant] <=>
              (~eq_call.case_sensitive \/ Strip(eq_call.v1) = Strip(eq_call.v2)))

\* both variants have compared " Ab" with "ab" in case-insensitive mode and
\* found them equal
C17_Witness ==
    /\ DOMAIN eq_ret = {"cli", "ext"}
    /\ eq_call.v1 = <<NBSP, "A", "b", " ">>
    /\ eq_call.v2 = <<"a", "b">>
    /\ ~eq_call.case_sensitive
    /\ eq_ret["cli"] /\ eq_ret["ext"]

\* ---------------------------------------------------------------------------
\* C18  No numeric default
\* ---------------------------------------------------------------------------

\* both values of the call are non-blank after trimming and exactly one of
\* them parses as a number
OneSideNumeric ==
    /\ Strip(eq_call.v1) # Blank
    /\ Strip(eq_call.v2) # Blank
    /\ IsFloat(Strip(eq_call.v1)) # IsFloat(Strip(eq_call.v2))

\* C18: in both differ variants, when both values are non-blank and exactly
\* one of them parses as a number, the two values are reported as not equal,
\* for every tolerance and both case modes.
C18_NoNumericDefault ==
    \A variant \in DOMAIN eq_ret : OneSideNumeric => ~eq_ret[variant]

\* both variants have compared "1.0" with "1x" at the widest tolerance and
\* reported them as not equal
C18_Witness ==
    /\ DOMAIN eq_ret = {"cli", "ext"}
    /\ eq_call.v1 = <<"1", ".", "0">>
    /\ eq_call.v2 = <<"1", "x">>
    /\ eq_call.float_tol = 500
    /\ ~eq_ret["cli"] /\ ~eq_ret["ext"]

-----------------------------------------------------------------------------
(* Differ runs in which the same table is given as file1 and as file2       *)

\* the tables a self-diff is run on: up to MaxDiffRows rows of file 1's shape
\* in any order, possibly lacking an identity column
SelfTables ==
    UNION {{DiffWithDefect(1, DiffFileOf(1, g), d) :
               g \in [1..n -> {x \in DiffRowPool : x[1] = 1}], d \in DiffDefects} :
           n \in 0..MaxDiffRows}

\* diff_precinct_files.py with the same path as --file1 and --file2
SelfDiffInit ==
    /\ pc = "dstart"
    /\ dfile1 \in SelfTables
    /\ dfile2 = dfile1
    /\ dopts \in [float_tol : TolPool, case_sensitive : BOOLEAN, only_cols : OnlyColsPool]
    /\ df1 = <<>>
    /\ df2 = <<>>
    /\ compare_cols = <<>>
    /\ diffs = <<>>
    /\ diff_csv = <<>>
    /\ argv = <<>>
    /\ fail_on_errors = FALSE
    /\ per_type = <<>>
    /\ merged = <<>>
    /\ conflict_rows = <<>>
    /\ printed = <<>>
    /\ err_csv = <<>>
    /\ out_csv = <<>>
    /\ written = {}
    /\ exit_code = 0
    /\ eq_call = <<>>
    /\ eq_ret = <<>>

\* diff_dataframes(df, df, ...)
XSelfDiffInit ==
    /\ pc = "xstart"
    /\ dfile1 \in SelfTables
    /\ dfile2 = dfile1
    /\ dopts \in [float_tol : TolPool, case_sensitive : BOOLEAN, compare_cols : XColsPool]
    /\ df1 = <<>>
    /\ df2 = <<>>
    /\ compare_cols = <<>>
    /\ diffs = <<>>
    /\ diff_csv = <<>>
    /\ argv = <<>>
    /\ fail_on_errors = FALSE
    /\ per_type = <<>>
    /\ merged = <<>>
    /\ conflict_rows = <<>>
    /\ printed = <<>>
    /\ err_csv = <<>>
    /\ out_csv = <<>>
    /\ written = {}
    /\ exit_code = 0
    /\ eq_call = <<>>
    /\ eq_ret = <<>>

SpecSelf == (SelfDiffInit \/ XSelfDiffInit) /\ [][DiffNext \/ XDiffNext]_vars

\* ---------------------------------------------------------------------------
\* C19  Self-diff is empty
\* ---------------------------------------------------------------------------

\* a differ run whose two inputs are the same table
IsSelfDiff == (InCliDiffer \/ InExtDiffer) /\ dfile1 = dfile2

\* C19: for every input table (a key may occur on more than one row), every
\* tolerance and both case modes, diffing the table against itself yields
\* zero diff records.
C19_SelfDiffEmpty ==
    IsSelfDiff => (diffs = <<>> /\ diff_csv = <<>>)

\* the differ runs on two tables and on one table given twice
SpecDiffersSelf ==
    (DiffInit \/ XDiffInit \/ SelfDiffInit \/ XSelfDiffInit) /\ [][DiffNext \/ XDiffNext]_vars

\* ---------------------------------------------------------------------------
\* C20  Differ output ordering
\* ---------------------------------------------------------------------------

\* record a comes strictly before record b in ascending
\* (state, county, precinct, diff_type, column) order
Precedes(a, b) ==
    \/ TupLess(DiffRecKey(a), DiffRecKey(b))
    \/ /\ DiffRecKey(a) = DiffRecKey(b)
       /\ \/ DiffTypeRank(a.diff_type) < DiffTypeRank(b.diff_type)
          \/ /\ a.diff_type = b.diff_type
             /\ ColumnRank(a.column) < ColumnRank(b.column)

\* the two records agree on all five sort fields
Tied(a, b) ==
    /\ DiffRecKey(a) = DiffRecKey(b)
    /\ a.diff_type = b.diff_type
    /\ a.column = b.column

\* C20: the diff table is in ascending (state, county, precinct, diff_type,
\* column) order, and records that tie on all five fields keep the relative
\* order in which they were produced from the input rows.
C20_DiffOrdering ==
    DiffersDone =>
       /\ \A i, j \in DOMAIN diff_csv : i < j => ~Precedes(diff_csv[j], diff_csv[i])
       /\ \A rec \in Range(diffs) \cup Range(diff_csv) :
             SelectSeq(diff_csv, LAMBDA x : Tied(x, rec))
               = SelectSeq(diffs, LAMBDA x : Tied(x, rec))

\* a finished run whose table holds two different records tied on all five
\* fields, and whose records were not produced in the order of the table
C20_Witness ==
    /\ DiffersDone
    /\ diff_csv # diffs
    /\ \E i, j \in DOMAIN diff_csv :
          i < j /\ Tied(diff_csv[i], diff_csv[j]) /\ diff_csv[i] # diff_csv[j]

\* ---------------------------------------------------------------------------
\* C21  Differ column selection
\* ---------------------------------------------------------------------------

\* a differ run that has ended, normally or not
DifferEnded == (InCliDiffer /\ pc = "exit") \/ pc \in {"xreturn", "xraise"}

\* the run was given no explicit list of columns
NoColumnList ==
    IF InExtDiffer THEN dopts.compare_cols = <<>>
    ELSE dopts.only_cols \in {<<>>, <<"">>}

\* the columns of the explicit list
ListedCols ==
    IF NoColumnList THEN {}
    ELSE IF InExtDiffer THEN Range(dopts.compare_cols[1])
    ELSE {StripText(c) : c \in Range(dopts.only_cols)} \ {""}

\* the non-key columns present in both tables
SharedCols == (PlainNames(dfile1) \cap PlainNames(dfile2)) \ Range(KEYS)

\* the columns the claim says are compared
ClaimedCols == IF NoColumnList THEN SharedCols ELSE ListedCols \cap SharedCols

\* the columns compared once the extended differ's exclusion is accounted for
ClaimedColsAmended ==
    ClaimedCols \ (IF InExtDiffer THEN {"ballots_cast"} ELSE {})

\* the run ended without error and its value_mismatch records are those of
\* the columns S, and of no other column
ComparesExactly(S) ==
    /\ DiffersDone
    /\ exit_code = 0
    /\ \A k \in TableKeys(dfile1) \cap TableKeys(dfile2) :
          \A c \in PlainNames(dfile1) \cup PlainNames(dfile2) \cup ListedCols :
             LET recs == MismatchesOf(k, c)
             IN [i \in DOMAIN recs |-> <<recs[i].file1_value, recs[i].file2_value>>]
                  = IF c \in S THEN UnequalPairs(k, c) ELSE <<>>
    /\ \A i \in DOMAIN diff_csv :
          diff_csv[i].diff_type = "value_mismatch" => diff_csv[i].column \in S

\* C21 (as stated): with no explicit column list the compared columns are
\* exactly the non-key columns present in both tables; a listed column that
\* is absent from a table or names an identity column is skipped without a
\* record or an error, and the remaining listed columns are still compared.
C21_ColumnSelection ==
    (DifferEnded /\ ~DifferInputDefective) => ComparesExactly(ClaimedCols)

\* C21 (amended): as stated for the command-line differ; in the extended
\* differ the column ballots_cast is in addition left out, listed or not.
C21_ColumnSelectionAmended ==
    (DifferEnded /\ ~DifferInputDefective) => ComparesExactly(ClaimedColsAmended)

\* a finished command-line run given a list that names a column of file1
\* only, an identity column and a shared column, which reports a mismatch in
\* the shared column
C21_Witness ==
    /\ DiffDone
    /\ dopts.only_cols = <<"registered_voters", NBSP \o "total_votes", "state ">>
    /\ \E i \in DOMAIN diff_csv :
          diff_csv[i].diff_type = "value_mismatch" /\ diff_csv[i].column = "registered_voters"

\* ---------------------------------------------------------------------------
\* C22  Inputs are not mutated
\* ---------------------------------------------------------------------------

\* C22: no step of a Combiner or Differ invocation changes a cell of an input
\* table passed to it: the Combiner's input files and the two tables of the
\* Differ keep their values throughout, also when diff_dataframes is called
\* on tables whose key cells carry leading or trailing whitespace.
C22_InputsNotMutated ==
    [][argv' = argv /\ dfile1' = dfile1 /\ dfile2' = dfile2]_vars

\* ---------------------------------------------------------------------------
\* C23  Identity-key matching
\* ---------------------------------------------------------------------------

\* the number of rows the chain of outer joins over the sources ts holds for
\* key k when rows match iff their trimmed keys are equal: the product of
\* the numbers of rows of k in the sources that hold k
RECURSIVE JoinCount(_, _)
JoinCount(ts, k) ==
    IF ts = <<>> THEN 0
    ELSE LET n == Len(TableRows(argv[Head(ts)], k))
             rest == JoinCount(Tail(ts), k)
         IN IF n = 0 THEN rest ELSE IF rest = 0 THEN n ELSE n * rest

\* the trimmed keys of all the Combiner's inputs
CombinerKeys == UNION {TableKeys(argv[t]) : t \in DOMAIN argv}

\* the records of type typ the diff table holds for key k
PresenceRecords(k, typ) ==
    SelectSeq(diff_csv, LAMBDA rec : DiffRecKey(rec) = k /\ rec.diff_type = typ)

\* C23: in the Combiner's join and in the Differ's join two rows have the
\* same key iff their state, county and precinct are equal after trimming,
\* compared case-sensitively: the merged frame holds for each trimmed key
\* the joined rows of the sources holding it and no row of another key, and
\* the Differ reports the rows of a trimmed key as missing iff the other
\* file lacks that very key, whatever the case mode.
C23_KeyMatching ==
    /\ pc = "merged" =>
          /\ \A k \in CombinerKeys :
                Len(RowsWithKey(merged, k)) = JoinCount(SuppliedSeq(argv), k)
          /\ KeysOf(merged) = CombinerKeys
    /\ DiffersDone =>
          \A k \in TableKeys(dfile1) \cup TableKeys(dfile2) :
             /\ Len(PresenceRecords(k, "missing_in_file2")) =
                   (IF k \in TableKeys(dfile2) THEN 0 ELSE Len(TableRows(dfile1, k)))
             /\ Len(PresenceRecords(k, "missing_in_file1")) =
                   (IF k \in TableKeys(dfile1) THEN 0 ELSE Len(TableRows(dfile2, k)))

\* a case-insensitive Differ run that reports precinct "P" of file1 and
\* precinct "p" of file2 as missing rows
C23_Witness ==
    /\ DiffersDone
    /\ ~dopts.case_sensitive
    /\ \E i, j \in DOMAIN diff_csv :
          /\ diff_csv[i].diff_type = "missing_in_file2" /\ diff_csv[i].precinct = <<"P">>
          /\ diff_csv[j].diff_type = "missing_in_file1" /\ diff_csv[j].precinct = <<"p">>

\* ---------------------------------------------------------------------------
\* C24  ballots_cast is never compared by the extended differ
\* ---------------------------------------------------------------------------

IsBallotsMismatch(rec) ==
    rec.diff_type = "value_mismatch" /\ rec.column = "ballots_cast"

\* C24: diff_dataframes emits no value_mismatch record whose column is
\* ballots_cast, whatever the inputs, also when ballots_cast is named in the
\* explicit list of columns to compare and its values differ.
C24_BallotsCastExcluded ==
    InExtDiffer =>
       /\ \A i \in DOMAIN diffs : ~IsBallotsMismatch(diffs[i])
       /\ \A i \in DOMAIN diff_csv : ~IsBallotsMismatch(diff_csv[i])

\* diff_dataframes has returned from a call that named ballots_cast, on two
\* tables that hold one key with different ballots_cast cells
C24_Witness ==
    /\ pc = "xreturn"
    /\ dopts.compare_cols = <<<<"registered_voters", "ballots_cast">>>>
    /\ \E k \in TableKeys(dfile1) \cap TableKeys(dfile2) :
          \E r1 \in Range(TableRows(dfile1, k)), r2 \in Range(TableRows(dfile2, k)) :
             ~RanEqual(r1[Col("ballots_cast")], r2[Col("ballots_cast")])

\* ---------------------------------------------------------------------------
\* C25  The two differ variants differ only by the blank/zero rule
\* ---------------------------------------------------------------------------

\* exactly one side is blank after trimming and the other parses as a number
\* of absolute value at most the tolerance
BlankAgainstSmall ==
    /\ ExactlyOneBlank
    /\ IsFloat(EqOther)
    /\ Distance(Thousandths(EqOther), 0) <= eq_call.float_tol

\* C25: compare_values and values_equal return the same result for every
\* pair of values, tolerance and case mode, except when exactly one side is
\* blank after trimming and the other parses as a number of absolute value
\* at most the tolerance: there values_equal returns equal and
\* compare_values not equal.
C25_VariantsDifferByBlankZero ==
    DOMAIN eq_ret = {"cli", "ext"} =>
       IF BlankAgainstSmall THEN eq_ret["ext"] /\ ~eq_ret["cli"]
       ELSE eq_ret["ext"] = eq_ret["cli"]

\* both relations have been applied to a blank and "0.5" at tolerance 0.5 and
\* disagree
C25_Witness ==
    /\ DOMAIN eq_ret = {"cli", "ext"}
    /\ eq_call.v1 = Blank
    /\ eq_call.v2 = <<"0", ".", "5">>
    /\ eq_call.float_tol = 500
    /\ eq_ret["ext"] /\ ~eq_ret["cli"]

\* ---------------------------------------------------------------------------
\* C26  Combiner status counts
\* ---------------------------------------------------------------------------

\* the run reported conflicts
ConflictsReported == "omitted" \in DOMAIN printed

\* C26: in a run with conflicts the reported number of omitted precincts is
\* the number of distinct keys in the conflict report and the reported number
\* of rows written is the number of distinct input keys minus that number;
\* in a run without conflicts the rows written are the number of distinct
\* input keys.
C26_StatusCounts ==
    CombineDone =>
       IF ConflictsReported
       THEN /\ printed["omitted"] = Cardinality(ErrKeys)
            /\ printed["rows"] = Cardinality(InputKeys) - Cardinality(ErrKeys)
       ELSE printed["rows"] = Cardinality(InputKeys)

\* ---------------------------------------------------------------------------
\* C27  Conflict provenance is always attributable
\* ---------------------------------------------------------------------------

\* the record names a supplied vote type, that type's tagged column and
\* path, and a value that type's file holds for the record's key and column
Attributable(rec) ==
    /\ rec.source_type \in DOMAIN argv
    /\ rec.source_column = Tagged(rec.column, rec.source_type)
    /\ rec.source_file = PathOf(rec.source_type)
    /\ rec.value \in Reported(rec.source_type, RecKey(rec), rec.column)

\* C27: every conflict record the Combiner emits has a source_type that is a
\* vote type supplied to the run (never "unknown"), a source_column equal to
\* the shared column tagged with that type, a source_file equal to the path
\* supplied for that type, and a value equal to the value that source holds
\* for the record's key and column.
C27_ConflictProvenance ==
    /\ \A i \in DOMAIN conflict_rows : Attributable(conflict_rows[i])
    /\ \A i \in DOMAIN err_csv : Attributable(err_csv[i])

\* a written conflict report with records of two different sources
C27_Witness ==
    /\ CombineDone
    /\ "err" \in written
    /\ \E i, j \in DOMAIN err_csv :
          /\ err_csv[i].source_type # err_csv[j].source_type
          /\ err_csv[i].value # err_csv[j].value

\* the differ runs and the calls of the two equality relations
SpecDiffersEq ==
    (DiffInit \/ XDiffInit \/ EqInit) /\ [][DiffNext \/ XDiffNext \/ EqNext]_vars

\* ---------------------------------------------------------------------------
\* C28  The differ equality relation is symmetric
\* ---------------------------------------------------------------------------

\* what the relation of a variant returns for the call's values under the
\* tolerance tol and the case mode cs, the values exchanged or not
EqResult(variant, exchanged, tol, cs) ==
    LET a == IF exchanged THEN eq_call.v2 ELSE eq_call.v1
        b == IF exchanged THEN eq_call.v1 ELSE eq_call.v2
    IN IF variant = "cli" THEN compare_values(a, b, tol, cs)
       ELSE values_equal(a, b, tol, cs)

\* what a diff record says, its description left aside
Essence(rec) ==
    <<DiffRecKey(rec), rec.diff_type, rec.column, rec.file1_value, rec.file2_value>>

\* the same with file1 and file2 exchanged
Exchange(e) ==
    <<e[1],
      IF e[2] = "missing_in_file1" THEN "missing_in_file2"
      ELSE IF e[2] = "missing_in_file2" THEN "missing_in_file1" ELSE e[2],
      e[3], e[5], e[4]>>

\* the diff table of the finished run's variant on the tables a and b under
\* the tolerance tol and the case mode cs
DiffTableOf(a, b, tol, cs) ==
    IF pc = "xreturn"
    THEN SortDiffs(XEmitDiffs(DiffMerge(a, b), XCompareCols(a, b, dopts.compare_cols), tol, cs))
    ELSE SortDiffs(EmitDiffs(DiffMerge(a, b), compare_cols, tol, cs))

EssenceOf(table) == {Essence(table[i]) : i \in DOMAIN table}

\* C28: in both variants equal(v1, v2) holds iff equal(v2, v1) holds, for
\* every pair of values, tolerance and case mode; and diffing (file2, file1)
\* yields the records of diffing (file1, file2) with file1_value and
\* file2_value exchanged and missing_in_file1 and missing_in_file2
\* exchanged.
C28_Symmetry ==
    /\ \A variant \in DOMAIN eq_ret :
          eq_ret[variant] = EqResult(variant, TRUE, eq_call.float_tol, eq_call.case_sensitive)
    /\ DiffersDone =>
          EssenceOf(DiffTableOf(df2, df1, dopts.float_tol, dopts.case_sensitive))
            = {Exchange(e) : e \in EssenceOf(diff_csv)}

\* a finished run of the extended differ that reports a mismatch between a
\* blank cell of file1 and a number of file2
C28_Witness ==
    /\ pc = "xreturn"
    /\ \E j \in DOMAIN diff_csv :
          /\ diff_csv[j].diff_type = "value_mismatch"
          /\ Strip(diff_csv[j].file1_value) = Blank
          /\ IsFloat(Strip(diff_csv[j].file2_value))

\* ---------------------------------------------------------------------------
\* C29  Leniency is monotone in the differ parameters
\* ---------------------------------------------------------------------------

\* the value_mismatch records of a table, as <<key, column, file1, file2>>
MismatchesIn(table) ==
    {<<e[1], e[3], e[4], e[5]>> : e \in {x \in EssenceOf(table) : x[2] = "value_mismatch"}}

\* C29: if two values are equal at tolerance t they are equal at every
\* tolerance t' >= t, and if they are equal in case-sensitive mode they are
\* equal in case-insensitive mode at the same tolerance; so a run with a
\* larger tolerance, or in case-insensitive mode instead of case-sensitive
\* mode, reports no value_mismatch the finished run does not report.
C29_MonotoneLeniency ==
    /\ \A variant \in DOMAIN eq_ret :
          eq_ret[variant] =>
             /\ \A t \in {x \in EqTols : x >= eq_call.float_tol} :
                   EqResult(variant, FALSE, t, eq_call.case_sensitive)
             /\ EqResult(variant, FALSE, eq_call.float_tol, FALSE)
    /\ DiffersDone =>
          /\ \A t \in {x \in TolPool : x >= dopts.float_tol} :
                MismatchesIn(DiffTableOf(df1, df2, t, dopts.case_sensitive))
                   \subseteq MismatchesIn(diff_csv)
          /\ MismatchesIn(DiffTableOf(df1, df2, dopts.float_tol, FALSE))
                \subseteq MismatchesIn(diff_csv)

\* both relations have found "10.001" and "10.0" equal at tolerance 0.01
C29_Witness ==
    /\ DOMAIN eq_ret = {"cli", "ext"}
    /\ eq_call.v1 = <<"1", "0", ".", "0", "0", "1">>
    /\ eq_call.v2 = <<"1", "0", ".", "0">>
    /\ eq_call.float_tol = 10
    /\ eq_ret["cli"] /\ eq_ret["ext"]

====
